---- MODULE Spec2Model ----
(***************************************************************************)
(* A model of meshcord_bot.py (MeshtasticDiscordBot): the SQLite tables    *)
(* processed_messages / nodes / radios, packet classification and          *)
(* forwarding to the Discord channel (the Sink), and the HTTP poll loop.   *)
(*                                                                         *)
(* Conventions                                                             *)
(*  - Python strings are TLA+ strings; the emoji of the message templates  *)
(*    are written as ASCII tags ("[radio] ", "[text] ", ...).              *)
(*  - A payload is a sequence of bytes, each byte a one-character string,  *)
(*    or BadByte for a byte that is not valid UTF-8.                       *)
(*  - Node ids are kept below 2^31 (the model checker's integer range).    *)
(*  - An optional value (Python None) is a set with no or one element,     *)
(*    or a record with the field is_none.                                  *)
(*  - Time is int(datetime.now().timestamp()): whole seconds in `now`.     *)
(***************************************************************************)
EXTENDS Integers, Sequences, FiniteSets, Bags, TLC

VARIABLES
    message_filters,       \* self.message_filters: category -> BOOLEAN
    show_signal_strength,  \* self.show_signal_strength
    processed_messages,    \* table processed_messages: a set of rows
    nodes,                 \* table nodes: a set of rows
    radios,                \* table radios: a set of rows
    now,                   \* the wall clock, in whole seconds
    sink,                  \* history: bag of channel.send calls the Sink got
    last,                  \* history: the operation that ran last
    session,               \* self.session: "none", "open" or "closed"
    poll_interval,         \* self.poll_interval, in seconds
    http_pc,               \* _monitor_radios_http: "idle" (not started) or
                           \* "polling" (inside a cycle's gather)
    poll_count,            \* local poll_count of _monitor_radios_http
    cycle,                 \* the polls of the current cycle: per radio
                           \* "pending", "ok" or "failed"
    connection_method,     \* self.connection_method: "http" or "serial"
    serial_timeout,        \* self.serial_timeout, in seconds
    serial_pc,             \* _monitor_serial: "idle" (not started),
                           \* "connecting", "retry_wait" (sleep 30 after a
                           \* failed creation), "connected" (the sleep 30
                           \* of the inner loop), "closing", "backoff"
                           \* (sleep 10) or "dead" (the task has ended)
    meshtastic_interface,  \* self.meshtastic_interface: "none", "open",
                           \* or "lost" (an object whose device is gone
                           \* or that was closed)
    last_packet_time,      \* self.last_packet_time, 0 for None
    packet_queue,          \* self.packet_queue: a sequence of packets
    queue_pc,              \* _process_packet_queue: "idle", "running" or
                           \* "dead"
    erred,                 \* history: an ingestion task has met a decode,
                           \* transport or Sink failure
    startup,               \* main: "start" (before MeshtasticDiscordBot()),
                           \* "constructed" or "failed" (__init__ raised)
    conn,                  \* self.conn: "none" or "open"
    tasks,                 \* the tasks on_ready has created so far and
                           \* that have not ended, counted per coroutine
    inflight,              \* per task inside _process_mesh_packet: where
                           \* it is suspended and what it holds there
    resync,                \* the serial byte buffer and what the
                           \* resynchronizer has emitted from it
    second_pc              \* the _monitor_serial task a second ready
                           \* event creates: its position, as serial_pc

vars == <<message_filters, show_signal_strength, processed_messages, nodes,
          radios, now, sink, last, session, poll_interval, http_pc,
          poll_count, cycle, connection_method, serial_timeout, serial_pc,
          meshtastic_interface, last_packet_time, packet_queue, queue_pc,
          erred, startup, conn, tasks, inflight, resync, second_pc>>

\* what no action after construction changes
settings_vars ==
    <<message_filters, show_signal_strength, connection_method,
      serial_timeout, startup, conn>>
\* the same with the state of the two-task, the byte-buffer and the
\* second-monitor specifications
static_vars == <<settings_vars, inflight, resync, second_pc>>
config_vars == <<static_vars, tasks>>
serial_vars ==
    <<serial_pc, meshtastic_interface, last_packet_time, packet_queue,
      queue_pc>>
db_vars == <<processed_messages, nodes, radios>>
http_vars == <<session, poll_interval, http_pc, poll_count, cycle>>

-----------------------------------------------------------------------------
(* Program constants *)

TEXT_MESSAGE_APP == 1
POSITION_APP == 3
NODEINFO_APP == 4
ROUTING_APP == 5
ADMIN_APP == 6
DETECTION_SENSOR_APP == 10
STORE_FORWARD_APP == 65
RANGE_TEST_APP == 66
TELEMETRY_APP == 67

\* 24 hours: the age beyond which _init_database deletes a dedup row
RetentionSeconds == 86400

\* Discord's message limit and the chunk size of _send_to_discord
DiscordLimit == 2000
ChunkSize == 1900

BadByte == "<invalid>"
Whitespace == {" ", "\n", "\t", "\r"}

-----------------------------------------------------------------------------
(* Configuration: self.radios, self.message_filters *)

\* the result of _parse_radios for a RADIOS list of two radios, the second
\* without a display_name
RadioConfig ==
    << [name |-> "RadioA", host |-> "10.0.0.1", port |-> "80",
        display_name |-> "Alpha"],
       [name |-> "RadioB", host |-> "10.0.0.2", port |-> "80"] >>

RadioNames == {RadioConfig[i].name : i \in DOMAIN RadioConfig}

MessageTypes ==
    {"text_messages", "position_updates", "node_info", "telemetry", "routing",
     "admin", "detection_sensor", "range_test", "store_forward", "unknown"}

\* the defaults of _parse_message_filters
DefaultFilters ==
    [t \in MessageTypes |-> t \notin {"routing", "unknown"}]

\* the environments the model starts from: the defaults, and one with
\* SHOW_TEXT_MESSAGES, SHOW_NODE_INFO and SHOW_SIGNAL_STRENGTH off
Configs ==
    { [filters |-> DefaultFilters, signal |-> TRUE, poll_interval |-> 2,
       connection_method |-> "http", serial_timeout |-> 240],
      [filters |-> [DefaultFilters EXCEPT !["text_messages"] = FALSE,
                                          !["node_info"] = FALSE],
       signal |-> FALSE, poll_interval |-> 2,
       connection_method |-> "http", serial_timeout |-> 240] }

-----------------------------------------------------------------------------
(* Formatting *)

HexDigit(d) ==
    CASE d = 0 -> "0" [] d = 1 -> "1" [] d = 2 -> "2" [] d = 3 -> "3"
      [] d = 4 -> "4" [] d = 5 -> "5" [] d = 6 -> "6" [] d = 7 -> "7"
      [] d = 8 -> "8" [] d = 9 -> "9" [] d = 10 -> "a" [] d = 11 -> "b"
      [] d = 12 -> "c" [] d = 13 -> "d" [] d = 14 -> "e" [] d = 15 -> "f"

RECURSIVE HexDigits(_)
\* the hexadecimal digits of n > 0, most significant first, "" for 0
HexDigits(n) ==
    IF n = 0 THEN "" ELSE HexDigits(n \div 16) \o HexDigit(n % 16)

RECURSIVE ZeroPad(_, _)
ZeroPad(s, width) == IF Len(s) >= width THEN s ELSE ZeroPad("0" \o s, width)

\* the node ids that occur in the model: 0x12345678, 0x0000beef, and 0
NodeIds == {305419896, 48879, 0}

\* ZeroPad(HexDigits(n), 8) of the node ids, computed once
Hex08Memo == [n \in NodeIds |-> ZeroPad(HexDigits(n), 8)]

\* f"{n:08x}": at least 8 lowercase hex digits, zero padded
Hex08(n) ==
    IF n \in DOMAIN Hex08Memo THEN Hex08Memo[n] ELSE ZeroPad(HexDigits(n), 8)

\* f"{snr:.1f}" of a value given in tenths
Format1f(tenths) ==
    IF tenths < 0
    THEN "-" \o ToString((-tenths) \div 10) \o "." \o ToString((-tenths) % 10)
    ELSE ToString(tenths \div 10) \o "." \o ToString(tenths % 10)

RECURSIVE LStrip(_)
LStrip(s) ==
    IF s # <<>> /\ Head(s) \in Whitespace THEN LStrip(Tail(s)) ELSE s

RECURSIVE RStrip(_)
RStrip(s) ==
    IF s # <<>> /\ s[Len(s)] \in Whitespace
    THEN RStrip(SubSeq(s, 1, Len(s) - 1)) ELSE s

\* str.strip() on a sequence of characters
Strip(s) == RStrip(LStrip(s))

RECURSIVE Join(_)
\* the string made of a sequence of characters
Join(s) ==
    IF s = <<>> THEN ""
    ELSE IF Len(s) = 1 THEN s[1]
    ELSE Join(SubSeq(s, 1, Len(s) \div 2))
             \o Join(SubSeq(s, Len(s) \div 2 + 1, Len(s)))

\* bytes.decode('utf-8', errors='ignore'): invalid bytes are dropped
DecodeUtf8Ignore(bytes) == SelectSeq(bytes, LAMBDA b : b # BadByte)

-----------------------------------------------------------------------------
(* DATABASE METHODS *)

\* mutant: the two query parameters bound in the wrong order
_is_message_processed_swapped(pm, message_id, source) ==
    \E r \in pm : r.message_id = source /\ r.source = message_id

_is_message_processed(pm, message_id, source) ==
    \E r \in pm : r.message_id = message_id /\ r.source = source

\* mutant: the values bound to the wrong columns
_mark_message_processed_misbound(pm, message_id, source, timestamp, t) ==
    {r \in pm : ~(r.message_id = source /\ r.source = message_id)}
    \cup {[message_id |-> source, source |-> message_id,
           timestamp |-> timestamp, processed_at |-> t]}

\* mutant: the primary key declared on message_id alone
_mark_message_processed_by_id(pm, message_id, source, timestamp, t) ==
    {r \in pm : r.message_id # message_id}
    \cup {[message_id |-> message_id, source |-> source,
           timestamp |-> timestamp, processed_at |-> t]}

\* mutant: every write also deletes the rows older than the retention
\* window
_mark_message_processed_sweeping(pm, message_id, source, timestamp, t) ==
    {r \in pm : /\ ~(r.message_id = message_id /\ r.source = source)
                /\ r.processed_at >= t - RetentionSeconds}
    \cup {[message_id |-> message_id, source |-> source,
           timestamp |-> timestamp, processed_at |-> t]}

\* INSERT OR REPLACE on the primary key (message_id, source)
_mark_message_processed(pm, message_id, source, timestamp, t) ==
    {r \in pm : ~(r.message_id = message_id /\ r.source = source)}
    \cup {[message_id |-> message_id, source |-> source,
           timestamp |-> timestamp, processed_at |-> t]}

\* mutant: the long name is preferred to the short name
_get_node_name_long_first(nd, node_id) ==
    LET result == {r \in nd : r.node_id = node_id}
        display_name(r) ==
            IF r.long_name # "" THEN r.long_name ELSE r.short_name
    IN  IF result # {} /\ display_name(CHOOSE r \in result : TRUE) # ""
        THEN display_name(CHOOSE r \in result : TRUE)
                 \o " (" \o Hex08(node_id) \o ")"
        ELSE Hex08(node_id)

_get_node_name(nd, node_id) ==
    LET result == {r \in nd : r.node_id = node_id}
        display_name(r) ==
            IF r.short_name # "" THEN r.short_name ELSE r.long_name
    IN  IF result # {} /\ display_name(CHOOSE r \in result : TRUE) # ""
        THEN display_name(CHOOSE r \in result : TRUE)
                 \o " (" \o Hex08(node_id) \o ")"
        ELSE Hex08(node_id)

\* user_info: [short_name, long_name], each a sequence of characters.
\* INSERT OR REPLACE on the primary key node_id, only when a name is given.
_update_node_info(nd, node_id, user_info, t) ==
    LET short_name == Join(Strip(user_info.short_name))
        long_name == Join(Strip(user_info.long_name))
    IN  IF short_name # "" \/ long_name # ""
        THEN {r \in nd : r.node_id # node_id}
             \cup {[node_id |-> node_id, short_name |-> short_name,
                    long_name |-> long_name, last_seen |-> t]}
        ELSE nd

_get_radio_info(rd, source) ==
    LET result == {r \in rd : r.source_name = source}
        row == CHOOSE r \in result : TRUE
        display_name ==
            IF row.short_name # "" THEN row.short_name
            ELSE IF row.long_name # "" THEN row.long_name ELSE source
        matching == {i \in DOMAIN RadioConfig : RadioConfig[i].name = source}
        first == CHOOSE i \in matching : \A j \in matching : i <= j
        radio == RadioConfig[first]
    IN  IF result # {}
        THEN IF row.node_id # 0
             THEN display_name \o " (" \o Hex08(row.node_id) \o ")"
             ELSE display_name
        ELSE IF matching # {}
        THEN (IF "display_name" \in DOMAIN radio
              THEN radio.display_name ELSE radio.name)
                 \o " (" \o radio.host \o ")"
        ELSE source

\* my_info: [my_node_num]; nothing is written when my_node_num is 0
_update_radio_info(rd, source, my_info, t) ==
    LET node_id == my_info.my_node_num
        matching == {i \in DOMAIN RadioConfig : RadioConfig[i].name = source}
        first == CHOOSE i \in matching : \A j \in matching : i <= j
        radio == RadioConfig[first]
        display_name ==
            IF matching # {} /\ "display_name" \in DOMAIN radio
            THEN radio.display_name ELSE source
    IN  IF node_id # 0
        THEN {r \in rd : r.source_name # source}
             \cup {[source_name |-> source, node_id |-> node_id,
                    short_name |-> display_name, long_name |-> "",
                    last_updated |-> t]}
        ELSE rd

\* mutant: the DELETE written with <= instead of <
PurgeOldMessages_inclusive(pm, t) ==
    {r \in pm : ~(r.processed_at <= t - RetentionSeconds)}

\* the DELETE of _init_database, run at time t
PurgeOldMessages(pm, t) ==
    {r \in pm : ~(r.processed_at < t - RetentionSeconds)}

-----------------------------------------------------------------------------
(* PACKET PROCESSING METHODS *)

\* mutant: the categories of ports 65 and 66 exchanged
PortType_exchanged(portnum) ==
    CASE portnum = TEXT_MESSAGE_APP -> "text_messages"
      [] portnum = POSITION_APP -> "position_updates"
      [] portnum = NODEINFO_APP -> "node_info"
      [] portnum = TELEMETRY_APP -> "telemetry"
      [] portnum = ROUTING_APP -> "routing"
      [] portnum = ADMIN_APP -> "admin"
      [] portnum = DETECTION_SENSOR_APP -> "detection_sensor"
      [] portnum = RANGE_TEST_APP -> "store_forward"
      [] portnum = STORE_FORWARD_APP -> "range_test"
      [] OTHER -> "unknown"

\* the category _get_message_info gives each port number
PortType(portnum) ==
    CASE portnum = TEXT_MESSAGE_APP -> "text_messages"
      [] portnum = POSITION_APP -> "position_updates"
      [] portnum = NODEINFO_APP -> "node_info"
      [] portnum = TELEMETRY_APP -> "telemetry"
      [] portnum = ROUTING_APP -> "routing"
      [] portnum = ADMIN_APP -> "admin"
      [] portnum = DETECTION_SENSOR_APP -> "detection_sensor"
      [] portnum = RANGE_TEST_APP -> "range_test"
      [] portnum = STORE_FORWARD_APP -> "store_forward"
      [] OTHER -> "unknown"

\* the fixed summary line of each port number other than the text port
PortSummary(portnum) ==
    CASE portnum = POSITION_APP -> "[pin] Position update"
      [] portnum = NODEINFO_APP -> "[i] Node info update"
      [] portnum = TELEMETRY_APP -> "[chart] Telemetry data"
      [] portnum = ROUTING_APP -> "[route] Routing message"
      [] portnum = ADMIN_APP -> "[gear] Admin message"
      [] portnum = DETECTION_SENSOR_APP -> "[alarm] Detection sensor"
      [] portnum = RANGE_TEST_APP -> "[ruler] Range test"
      [] portnum = STORE_FORWARD_APP -> "[disk] Store & Forward"
      [] OTHER -> "[?] Unknown message (port " \o ToString(portnum) \o ")"

NoMessage == [is_none |-> TRUE]

\* mutant: a packet with an empty payload yields no message on any port
_get_message_info_needs_payload(nd, rd, signal, decoded, from_id, rx_time, source, snr, rssi) ==
    LET discord_timestamp ==
            IF rx_time # 0 THEN "<t:" \o ToString(rx_time) \o ":t>" ELSE "N/A"
        node_name == _get_node_name(nd, from_id)
        radio_info == _get_radio_info(rd, source)
        base_info == "[radio] **" \o radio_info \o "** | **" \o node_name
                         \o "** | " \o discord_timestamp \o "\n"
        signal_info ==
            IF signal THEN "[signal] SNR: " \o snr \o " | RSSI: " \o rssi
            ELSE ""
        suffix == IF signal_info # "" THEN "\n" \o signal_info ELSE ""
        portnum == decoded.portnum
        text == Join(Strip(DecodeUtf8Ignore(decoded.payload.bytes)))
    IN  IF portnum = TEXT_MESSAGE_APP
        THEN IF text # ""
             THEN [is_none |-> FALSE, type |-> "text_messages",
                   content |-> base_info \o "[text] " \o text \o suffix]
             ELSE NoMessage
        ELSE IF decoded.payload.bytes = <<>> THEN NoMessage
        ELSE [is_none |-> FALSE, type |-> PortType(portnum),
              content |-> base_info \o PortSummary(portnum) \o suffix]

\* Returns NoMessage (Python None) or [is_none |-> FALSE, type, content].
_get_message_info(nd, rd, signal, decoded, from_id, rx_time, source, snr, rssi) ==
    LET discord_timestamp ==
            IF rx_time # 0 THEN "<t:" \o ToString(rx_time) \o ":t>" ELSE "N/A"
        node_name == _get_node_name(nd, from_id)
        radio_info == _get_radio_info(rd, source)
        base_info == "[radio] **" \o radio_info \o "** | **" \o node_name
                         \o "** | " \o discord_timestamp \o "\n"
        signal_info ==
            IF signal THEN "[signal] SNR: " \o snr \o " | RSSI: " \o rssi
            ELSE ""
        suffix == IF signal_info # "" THEN "\n" \o signal_info ELSE ""
        portnum == decoded.portnum
        text == Join(Strip(DecodeUtf8Ignore(decoded.payload.bytes)))
    IN  IF portnum = TEXT_MESSAGE_APP
        THEN IF text # ""
             THEN [is_none |-> FALSE, type |-> "text_messages",
                   content |-> base_info \o "[text] " \o text \o suffix]
             ELSE NoMessage
        ELSE [is_none |-> FALSE, type |-> PortType(portnum),
              content |-> base_info \o PortSummary(portnum) \o suffix]

\* self.message_filters.get(message_type, False)
_should_process_message_type(filters, message_type) ==
    IF message_type \in DOMAIN filters THEN filters[message_type] ELSE FALSE

Min(a, b) == IF a < b THEN a ELSE b

\* mutant: slices of 2000 characters taken every 1900
Chunks_wide(message) ==
    [k \in 1..((Len(message) + ChunkSize - 1) \div ChunkSize) |->
        SubSeq(message, (k - 1) * ChunkSize + 1,
               Min((k - 1) * ChunkSize + DiscordLimit, Len(message)))]

\* [message[i:i+1900] for i in range(0, len(message), 1900)]
Chunks(message) ==
    [k \in 1..((Len(message) + ChunkSize - 1) \div ChunkSize) |->
        SubSeq(message, (k - 1) * ChunkSize + 1,
               Min(k * ChunkSize, Len(message)))]

\* The environment of one _send_to_discord call: whether get_channel finds
\* the channel, and which channel.send call raises (0: none does).
SinkEnvs ==
    { [channel |-> TRUE, fail_at |-> 0],
      [channel |-> TRUE, fail_at |-> 1],
      [channel |-> FALSE, fail_at |-> 0] }

\* mutant: no try/except around the send, so a send that raises leaves
\* the method
_send_to_discord_uncaught(message, env) ==
    LET wanted == IF Len(message) > DiscordLimit
                  THEN Chunks(message) ELSE <<message>>
        fails == env.fail_at \in 1..Len(wanted)
    IN  IF env.channel
        THEN [calls |-> IF fails THEN SubSeq(wanted, 1, env.fail_at)
                        ELSE wanted,
              raised |-> fails]
        ELSE [calls |-> <<>>, raised |-> FALSE]

\* Returns [calls, raised]: the texts passed to channel.send, in order, the
\* last one being the call that raised if one did; raised says whether an
\* exception leaves the method (the except clause logs it, so none does).
_send_to_discord(message, env) ==
    LET wanted == IF Len(message) > DiscordLimit
                  THEN Chunks(message) ELSE <<message>>
        made == IF env.fail_at \in 1..Len(wanted)
                THEN SubSeq(wanted, 1, env.fail_at) ELSE wanted
    IN  IF env.channel
        THEN [calls |-> made, raised |-> FALSE]
        ELSE [calls |-> <<>>, raised |-> FALSE]

\* f"{from_id:08x}_{packet_id}"
MessageId(from_id, packet_id) == Hex08(from_id) \o "_" \o ToString(packet_id)

\* mutant: the identity payload is stored only when the packet is forwarded
_process_mesh_packet_filtered_identity(db, cfg, packet, source, env, t) ==
    LET from_id == packet.from
        packet_id == packet.id
        rx_time == packet.rx_time
        message_id == MessageId(from_id, packet_id)
        unchanged == [processed_messages |-> db.processed_messages,
                      nodes |-> db.nodes, attempted |-> FALSE,
                      calls |-> <<>>, escaped |-> FALSE]
        decoded == packet.decoded
        snr_str == IF packet.rx_snr = {} THEN "N/A"
                   ELSE Format1f(CHOOSE v \in packet.rx_snr : TRUE)
        rssi_str == IF packet.rx_rssi = {} THEN "N/A"
                    ELSE ToString(CHOOSE v \in packet.rx_rssi : TRUE)
        message_info ==
            _get_message_info(db.nodes, db.radios, cfg.signal, decoded,
                              from_id, rx_time, source, snr_str, rssi_str)
        forward == ~message_info.is_none
                   /\ _should_process_message_type(cfg.filters,
                                                   message_info.type)
        sent == IF forward THEN _send_to_discord(message_info.content, env)
                ELSE [calls |-> <<>>, raised |-> FALSE]
        marked == IF ~message_info.is_none
                  THEN _mark_message_processed(db.processed_messages,
                                               message_id, source, rx_time, t)
                  ELSE db.processed_messages
        user == decoded.payload.user
        extracted ==
            IF decoded.portnum = NODEINFO_APP /\ user # {} /\ forward
            THEN _update_node_info(db.nodes, from_id,
                                   CHOOSE u \in user : TRUE, t)
            ELSE db.nodes
    IN  \* `0 or getattr(packet, 'from_', None)` is None: a MeshPacket has
        \* no attribute from_
        IF from_id = 0 THEN unchanged
        ELSE IF _is_message_processed(db.processed_messages, message_id, source)
        THEN unchanged
        ELSE IF ~decoded.truthy THEN unchanged
        ELSE IF sent.raised
        THEN \* the outer except clause: logged, nothing else is done
             [unchanged EXCEPT !.attempted = TRUE, !.calls = sent.calls]
        ELSE [processed_messages |-> marked, nodes |-> extracted,
              attempted |-> forward, calls |-> sent.calls,
              escaped |-> FALSE]

\* mutant: the identity of a node-info packet that is already on record is
\* stored again
_process_mesh_packet_identity_first(db, cfg, packet, source, env, t) ==
    LET from_id == packet.from
        packet_id == packet.id
        rx_time == packet.rx_time
        message_id == MessageId(from_id, packet_id)
        unchanged == [processed_messages |-> db.processed_messages,
                      nodes |-> db.nodes, attempted |-> FALSE,
                      calls |-> <<>>, escaped |-> FALSE]
        decoded == packet.decoded
        snr_str == IF packet.rx_snr = {} THEN "N/A"
                   ELSE Format1f(CHOOSE v \in packet.rx_snr : TRUE)
        rssi_str == IF packet.rx_rssi = {} THEN "N/A"
                    ELSE ToString(CHOOSE v \in packet.rx_rssi : TRUE)
        message_info ==
            _get_message_info(db.nodes, db.radios, cfg.signal, decoded,
                              from_id, rx_time, source, snr_str, rssi_str)
        forward == ~message_info.is_none
                   /\ _should_process_message_type(cfg.filters,
                                                   message_info.type)
        sent == IF forward THEN _send_to_discord(message_info.content, env)
                ELSE [calls |-> <<>>, raised |-> FALSE]
        marked == IF ~message_info.is_none
                  THEN _mark_message_processed(db.processed_messages,
                                               message_id, source, rx_time, t)
                  ELSE db.processed_messages
        user == decoded.payload.user
        extracted ==
            IF decoded.portnum = NODEINFO_APP /\ user # {}
            THEN _update_node_info(db.nodes, from_id,
                                   CHOOSE u \in user : TRUE, t)
            ELSE db.nodes
    IN  \* `0 or getattr(packet, 'from_', None)` is None: a MeshPacket has
        \* no attribute from_
        IF from_id = 0 THEN unchanged
        ELSE IF _is_message_processed(db.processed_messages, message_id, source)
        THEN [unchanged EXCEPT !.nodes = extracted]
        ELSE IF ~decoded.truthy THEN unchanged
        ELSE IF sent.raised
        THEN \* the outer except clause: logged, nothing else is done
             [unchanged EXCEPT !.attempted = TRUE, !.calls = sent.calls]
        ELSE [processed_messages |-> marked, nodes |-> extracted,
              attempted |-> forward, calls |-> sent.calls,
              escaped |-> FALSE]

\* Returns the tables after the call, whether _send_to_discord was called,
\* the Sink calls made and whether an exception left the method:
\* [processed_messages, nodes, attempted, calls, escaped].
\* db: [processed_messages, nodes, radios]; cfg: [filters, signal].
_process_mesh_packet(db, cfg, packet, source, env, t) ==
    LET from_id == packet.from
        packet_id == packet.id
        rx_time == packet.rx_time
        message_id == MessageId(from_id, packet_id)
        unchanged == [processed_messages |-> db.processed_messages,
                      nodes |-> db.nodes, attempted |-> FALSE,
                      calls |-> <<>>, escaped |-> FALSE]
        decoded == packet.decoded
        snr_str == IF packet.rx_snr = {} THEN "N/A"
                   ELSE Format1f(CHOOSE v \in packet.rx_snr : TRUE)
        rssi_str == IF packet.rx_rssi = {} THEN "N/A"
                    ELSE ToString(CHOOSE v \in packet.rx_rssi : TRUE)
        message_info ==
            _get_message_info(db.nodes, db.radios, cfg.signal, decoded,
                              from_id, rx_time, source, snr_str, rssi_str)
        forward == ~message_info.is_none
                   /\ _should_process_message_type(cfg.filters,
                                                   message_info.type)
        sent == IF forward THEN _send_to_discord(message_info.content, env)
                ELSE [calls |-> <<>>, raised |-> FALSE]
        marked == IF ~message_info.is_none
                  THEN _mark_message_processed(db.processed_messages,
                                               message_id, source, rx_time, t)
                  ELSE db.processed_messages
        user == decoded.payload.user
        extracted ==
            IF decoded.portnum = NODEINFO_APP /\ user # {}
            THEN _update_node_info(db.nodes, from_id,
                                   CHOOSE u \in user : TRUE, t)
            ELSE db.nodes
    IN  \* `0 or getattr(packet, 'from_', None)` is None: a MeshPacket has
        \* no attribute from_
        IF from_id = 0 THEN unchanged
        ELSE IF _is_message_processed(db.processed_messages, message_id, source)
        THEN unchanged
        ELSE IF ~decoded.truthy THEN unchanged
        ELSE IF sent.raised
        THEN \* the outer except clause: logged, nothing else is done
             [unchanged EXCEPT !.attempted = TRUE, !.calls = sent.calls]
        ELSE [processed_messages |-> marked, nodes |-> extracted,
              attempted |-> forward, calls |-> sent.calls,
              escaped |-> FALSE]

\* mutant: a node_info envelope is put on the dedup record too
_process_from_radio_marking(db, cfg, from_radio, source, env, t) ==
    LET unchanged == [processed_messages |-> db.processed_messages,
                      nodes |-> db.nodes, radios |-> db.radios,
                      attempted |-> FALSE, calls |-> <<>>,
                      escaped |-> FALSE]
    IN  CASE from_radio.variant = "packet" ->
                 _process_mesh_packet(db, cfg, from_radio.packet, source,
                                      env, t)
                     @@ [radios |-> db.radios]
          [] from_radio.variant = "node_info" ->
                 [unchanged EXCEPT
                     !.nodes =
                         _update_node_info(db.nodes, from_radio.node_info.num,
                                           from_radio.node_info.user, t),
                     !.processed_messages =
                         _mark_message_processed(
                             db.processed_messages,
                             MessageId(from_radio.node_info.num, 0),
                             source, 0, t)]
          [] from_radio.variant = "my_info" ->
                 [unchanged EXCEPT !.radios =
                     _update_radio_info(db.radios, source,
                                        from_radio.my_info, t)]
          [] OTHER -> unchanged

\* A decoded FromRadio is [variant, ...]: variant "packet" with packet,
\* "node_info" with node_info = [num, user], "my_info" with my_info =
\* [my_node_num], "config", or "none" when no field of the envelope is set.
\* Returns [processed_messages, nodes, radios, attempted, calls, escaped].
_process_from_radio(db, cfg, from_radio, source, env, t) ==
    LET unchanged == [processed_messages |-> db.processed_messages,
                      nodes |-> db.nodes, radios |-> db.radios,
                      attempted |-> FALSE, calls |-> <<>>,
                      escaped |-> FALSE]
    IN  CASE from_radio.variant = "packet" ->
                 _process_mesh_packet(db, cfg, from_radio.packet, source,
                                      env, t)
                     @@ [radios |-> db.radios]
          [] from_radio.variant = "node_info" ->
                 [unchanged EXCEPT !.nodes =
                     _update_node_info(db.nodes, from_radio.node_info.num,
                                       from_radio.node_info.user, t)]
          [] from_radio.variant = "my_info" ->
                 [unchanged EXCEPT !.radios =
                     _update_radio_info(db.radios, source,
                                        from_radio.my_info, t)]
          [] OTHER -> unchanged

\* mutant: the MeshPacket parser is tried whether or not FromRadio parsed
_process_protobuf_data_both(db, cfg, data, source, env, t) ==
    IF data.mesh_packet # {}
    THEN _process_mesh_packet(db, cfg, CHOOSE m \in data.mesh_packet : TRUE,
                              source, env, t)
             @@ [radios |-> db.radios,
                 path |-> IF data.from_radio # {} THEN "both"
                          ELSE "mesh_packet"]
    ELSE IF data.from_radio # {}
    THEN _process_from_radio(db, cfg, CHOOSE f \in data.from_radio : TRUE,
                             source, env, t)
             @@ [path |-> "from_radio"]
    ELSE [processed_messages |-> db.processed_messages,
          nodes |-> db.nodes, radios |-> db.radios,
          attempted |-> FALSE, calls |-> <<>>,
          escaped |-> FALSE, path |-> "dropped"]

\* data is a byte string, given by what the two parsers make of it:
\* [from_radio, mesh_packet], each the set of the parser's result, empty
\* when ParseFromString raises. Returns the record of _process_from_radio
\* with the field path: "from_radio", "mesh_packet" or "dropped".
_process_protobuf_data(db, cfg, data, source, env, t) ==
    IF data.from_radio # {}
    THEN _process_from_radio(db, cfg, CHOOSE f \in data.from_radio : TRUE,
                             source, env, t)
             @@ [path |-> "from_radio"]
    ELSE IF data.mesh_packet # {}
    THEN _process_mesh_packet(db, cfg, CHOOSE m \in data.mesh_packet : TRUE,
                              source, env, t)
             @@ [radios |-> db.radios, path |-> "mesh_packet"]
    ELSE [processed_messages |-> db.processed_messages,
          nodes |-> db.nodes, radios |-> db.radios,
          attempted |-> FALSE, calls |-> <<>>,
          escaped |-> FALSE, path |-> "dropped"]

-----------------------------------------------------------------------------
(* HTTP CONNECTION METHODS *)

\* b'': FromRadio parses it as an envelope with no field set
EmptyBody ==
    [from_radio |-> {[variant |-> "none"]}, mesh_packet |-> {}]

\* What session.get and response.read give one poll: outcome "response"
\* with a status and a body, "timeout" (asyncio.TimeoutError) or "error"
\* (any other exception: connection refused, DNS failure, session closed).
Response(status, body) ==
    [outcome |-> "response", status |-> status, body |-> body]

TimedOut == [outcome |-> "timeout", status |-> 0, body |-> EmptyBody]

ConnectionFailed == [outcome |-> "error", status |-> 0, body |-> EmptyBody]

\* a poll that hands nothing to _process_protobuf_data
NothingHanded(db) ==
    [processed_messages |-> db.processed_messages, nodes |-> db.nodes,
     radios |-> db.radios, attempted |-> FALSE, calls |-> <<>>,
     escaped |-> FALSE, path |-> "none", handed |-> <<>>, raised |-> FALSE]

\* mutant: the body is handed on without the `if data:` test
_poll_radio_http_unchecked(db, cfg, sess, radio_name, response, env, t) ==
    LET got == IF sess = "open" THEN response ELSE ConnectionFailed
    IN  IF got.outcome = "response" /\ got.status = 200
        THEN _process_protobuf_data(db, cfg, got.body, radio_name, env, t)
                 @@ [handed |-> <<got.body>>, raised |-> FALSE]
        ELSE NothingHanded(db)

\* mutant: only asyncio.TimeoutError is caught
_poll_radio_http_timeout_only(db, cfg, sess, radio_name, response, env, t) ==
    LET got == IF sess = "open" THEN response ELSE ConnectionFailed
    IN  IF got.outcome = "response" /\ got.status = 200
           /\ got.body # EmptyBody
        THEN _process_protobuf_data(db, cfg, got.body, radio_name, env, t)
                 @@ [handed |-> <<got.body>>, raised |-> FALSE]
        ELSE [NothingHanded(db) EXCEPT !.raised = (got.outcome = "error")]

\* One poll of radio_name on session sess ("none", "open" or "closed").
\* Returns the record of _process_protobuf_data with the fields handed (the
\* bodies given to _process_protobuf_data) and raised (an exception leaves
\* the method). A session that is None or closed makes session.get raise.
_poll_radio_http(db, cfg, sess, radio_name, response, env, t) ==
    LET got == IF sess = "open" THEN response ELSE ConnectionFailed
    IN  IF got.outcome = "response" /\ got.status = 200
           /\ got.body # EmptyBody
        THEN _process_protobuf_data(db, cfg, got.body, radio_name, env, t)
                 @@ [handed |-> <<got.body>>, raised |-> FALSE]
        ELSE \* 200 with no data, 503, another status (warning), or an
             \* exception caught by one of the two except clauses
             NothingHanded(db)

\* the result recorded for a poll: "ok" for 200 and 503, else "failed"
PollResult(sess, response) ==
    IF sess = "open" /\ response.outcome = "response"
       /\ response.status \in {200, 503}
    THEN "ok" ELSE "failed"

\* mutant: the polls run one after another and the first failure ends the
\* cycle
PendingPolls_until_failure(cyc) ==
    IF \E r \in DOMAIN cyc : cyc[r] = "failed" THEN {}
    ELSE {r \in DOMAIN cyc : cyc[r] = "pending"}

\* the tasks of asyncio.gather(*tasks, return_exceptions=True) that have
\* not run yet: every radio gets its poll whatever the others did
PendingPolls(cyc) == {r \in DOMAIN cyc : cyc[r] = "pending"}

\* math.gcd, for the quotient 3600 / poll_interval in lowest terms
RECURSIVE Gcd(_, _)
Gcd(a, b) == IF b = 0 THEN a ELSE Gcd(b, a % b)

\* n >= 1 is a power of two: a quotient with such a denominator is a float
\* without rounding
RECURSIVE IsPowerOfTwo(_)
IsPowerOfTwo(n) == n = 1 \/ (n % 2 = 0 /\ IsPowerOfTwo(n \div 2))

\* poll_count % (3600 / self.poll_interval) == 0 and poll_count > 0, for a
\* poll interval of whole seconds. self.poll_interval is a float, so the
\* divisor is the float nearest to the quotient and % is the exact
\* remainder by that float: when the quotient in lowest terms has a power
\* of two as denominator it is exact, and the remainder is 0 for the
\* counts that are a multiple of it; otherwise the divisor is a rounded
\* value with some fifty binary places, and no count a run can reach is a
\* multiple of it
RecycleDue(count, interval) ==
    LET g == Gcd(3600, interval)
        denominator == interval \div g
    IN  /\ count > 0
        /\ IsPowerOfTwo(denominator)
        /\ (count * denominator) % (3600 \div g) = 0

-----------------------------------------------------------------------------
(* The packets the transports deliver *)

Packet(from, id, rx_time, portnum, bytes, user) ==
    [from |-> from, id |-> id, rx_time |-> rx_time,
     rx_snr |-> {55}, rx_rssi |-> {-80},
     decoded |-> [truthy |-> TRUE, has_field |-> TRUE, portnum |-> portnum,
                  payload |-> [bytes |-> bytes, user |-> user]]]

\* a packet whose decoded attribute is None
UndecodedPacket(from, id, rx_time) ==
    [from |-> from, id |-> id, rx_time |-> rx_time,
     rx_snr |-> {}, rx_rssi |-> {},
     decoded |-> [truthy |-> FALSE, has_field |-> FALSE, portnum |-> 0,
                  payload |-> [bytes |-> <<>>, user |-> {}]]]

\* a protobuf MeshPacket whose decoded field is not set (the packet is
\* encrypted): reading the attribute gives an empty Data message, which is
\* an object and so true as a condition, with portnum 0, an empty payload
\* and the signal fields at their defaults
MeshPacketWithoutDecoded(from, id, rx_time) ==
    [from |-> from, id |-> id, rx_time |-> rx_time,
     rx_snr |-> {0}, rx_rssi |-> {0},
     decoded |-> [truthy |-> TRUE, has_field |-> FALSE, portnum |-> 0,
                  payload |-> [bytes |-> <<>>, user |-> {}]]]

Alice == [short_name |-> <<"A", "l">>, long_name |-> <<"A", "l", "i", "c", "e">>]

\* node 0x12345678 is 305419896, node 0x0000beef is 48879
TextPacket == Packet(305419896, 42, 1699999990, TEXT_MESSAGE_APP, <<"H", "i">>, {})
BlankTextPacket == Packet(305419896, 43, 1699999990, TEXT_MESSAGE_APP, <<" ", "\n">>, {})
PositionPacket == Packet(305419896, 42, 1699999990, POSITION_APP, <<>>, {})
RoutingPacket == Packet(48879, 42, 0, ROUTING_APP, <<>>, {})
NodeInfoPacket == Packet(48879, 7, 1699999990, NODEINFO_APP, <<"x">>, {Alice})
NoSenderPacket == Packet(0, 42, 1699999990, TEXT_MESSAGE_APP, <<"H", "i">>, {})
EncryptedPacket == UndecodedPacket(305419896, 44, 1699999990)
EncryptedMeshPacket == MeshPacketWithoutDecoded(305419896, 45, 1699999990)

\* the key of NodeInfoPacket again, with another identity in the payload
Alicia == [short_name |-> <<"A", "2">>,
           long_name |-> <<"A", "l", "i", "c", "i", "a">>]
RenamedNodeInfoPacket ==
    Packet(48879, 7, 1699999990, NODEINFO_APP, <<"y">>, {Alicia})

Packets ==
    {TextPacket, BlankTextPacket, PositionPacket, RoutingPacket,
     NodeInfoPacket, NoSenderPacket, EncryptedPacket}

-----------------------------------------------------------------------------
(* State *)

Db == [processed_messages |-> processed_messages, nodes |-> nodes,
       radios |-> radios]

Cfg == [filters |-> message_filters, signal |-> show_signal_strength]

NoEnv == [channel |-> FALSE, fail_at |-> -1]

NoPacket == UndecodedPacket(0, 0, 0)

NoResponse == [outcome |-> "none", status |-> 0, body |-> EmptyBody]

\* the record of the operation that ran last: its inputs (packet, source,
\* response, env), what it found (seen_before, after_failure) and what it
\* did (attempted, calls, handed, escaped, purged)
NoOp == [op |-> "none", packet |-> NoPacket, message_id |-> "",
         source |-> "", env |-> NoEnv, seen_before |-> FALSE,
         attempted |-> FALSE, calls |-> <<>>, escaped |-> FALSE,
         after_failure |-> FALSE, purged |-> 0,
         response |-> NoResponse, handed |-> <<>>, path |-> "none",
         erred_before |-> FALSE, result |-> [is_none |-> TRUE]]

\* the Sink did not take the message: no channel, or a send that raised
SinkFailed(env) == ~env.channel \/ env.fail_at > 0

\* the operation that ran last called the Sink and the Sink failed
LastSinkFailed == last.attempted /\ SinkFailed(last.env)

\* the Sink calls of one packet, tagged with the packet's key and source
SinkEntries(message_id, source, calls) ==
    {[message_id |-> message_id, source |-> source, part |-> k,
      text |-> calls[k]] : k \in DOMAIN calls}

\* no task has been created
NoTasks == [monitor_serial |-> 0, process_packet_queue |-> 0,
            monitor_radios_http |-> 0]

\* the two tasks followed through _process_mesh_packet
TaskNames == {"t1", "t2"}

\* a task that is not inside _process_mesh_packet
NotInside == [pc |-> "out", packet |-> NoPacket, source |-> "",
              env |-> NoEnv, calls |-> <<>>]

\* no bytes have been read from the serial stream
NoBuffer == [pc |-> "idle", stream |-> <<>>, buffer |-> <<>>,
             emitted |-> <<>>, decodes |-> {}, garbage |-> 0,
             envelope |-> <<>>, dropped |-> 0]

\* the attributes under configuration c on an empty database, with main
\* at st and the database connection cn
Attributes(c, st, cn) ==
    /\ startup = st
    /\ conn = cn
    /\ message_filters = c.filters
    /\ show_signal_strength = c.signal
    /\ processed_messages = {}
    /\ nodes = {}
    /\ radios = {}
    /\ now = 1700000000
    /\ sink = EmptyBag
    /\ last = NoOp
    /\ session = "none"
    /\ poll_interval = c.poll_interval
    /\ http_pc = "idle"
    /\ poll_count = 0
    /\ cycle = [r \in RadioNames |-> "pending"]
    /\ connection_method = c.connection_method
    /\ serial_timeout = c.serial_timeout
    /\ serial_pc = "idle"
    /\ meshtastic_interface = "none"
    /\ last_packet_time = 0
    /\ packet_queue = <<>>
    /\ queue_pc = "idle"
    /\ erred = FALSE
    /\ tasks = NoTasks
    /\ inflight = [k \in TaskNames |-> NotInside]
    /\ resync = NoBuffer
    /\ second_pc = "idle"

\* the state after __init__ on an empty database, under configuration c
Constructed(c) == Attributes(c, "constructed", "open")

Init == \E c \in Configs : Constructed(c)

\* The state after _process_mesh_packet(p, source) returned r.
Delivered(p, source, env, r) ==
    LET message_id == MessageId(p.from, p.id)
    IN  /\ processed_messages' = r.processed_messages
        /\ nodes' = r.nodes
        /\ sink' = sink (+) SetToBag(SinkEntries(message_id, source, r.calls))
        /\ last' = [NoOp EXCEPT
                       !.op = "packet", !.packet = p,
                       !.message_id = message_id, !.source = source,
                       !.env = env,
                       !.seen_before =
                           _is_message_processed(processed_messages,
                                                 message_id, source),
                       !.attempted = r.attempted, !.calls = r.calls,
                       !.escaped = r.escaped,
                       !.after_failure = LastSinkFailed]
        /\ UNCHANGED <<config_vars, radios, now, http_vars, serial_vars, erred>>

\* A transport hands packet p, received through source, to
\* _process_mesh_packet, and the call runs to its end. The Sink's behaviour
\* is drawn when the call reaches _send_to_discord.
DeliverPacket(p, source) ==
    \E quiet \in {_process_mesh_packet(Db, Cfg, p, source, NoEnv, now)} :
        IF quiet.attempted
        THEN \E env \in SinkEnvs :
                \E r \in {_process_mesh_packet(Db, Cfg, p, source, env, now)} :
                    Delivered(p, source, env, r)
        ELSE Delivered(p, source, NoEnv, quiet)

Next ==
    \E p \in Packets, source \in RadioNames : DeliverPacket(p, source)

Spec == Init /\ [][Next]_vars

\* The same deliveries for packets without a decoded payload and for
\* node-info packets that come again
RouterPackets ==
    {NodeInfoPacket, RenamedNodeInfoPacket, EncryptedPacket,
     EncryptedMeshPacket}

NextRouter ==
    \E p \in RouterPackets, source \in RadioNames : DeliverPacket(p, source)

SpecRouter == Init /\ [][NextRouter]_vars

-----------------------------------------------------------------------------
(* The store on its own: the dedup methods called directly, the clock, and *)
(* a restart of the process on the same database file                     *)

\* the instants the clock takes: construction, one second later, and 24
\* hours after each of the two
Instants == {1700000000, 1700000001, 1700086400, 1700086401}

\* the (message_id, timestamp) arguments of the direct calls
RecordInputs ==
    { [message_id |-> "test_msg_789", timestamp |-> 1699999990],
      [message_id |-> "12345678_42", timestamp |-> 0] }

StoreSources == {"radio1", "radio2"}

InitStore ==
    Constructed([filters |-> DefaultFilters, signal |-> TRUE,
                 poll_interval |-> 2, connection_method |-> "http",
                 serial_timeout |-> 240])

\* bot._mark_message_processed(message_id, source, timestamp)
Record(message_id, source, timestamp) ==
    /\ processed_messages' =
           _mark_message_processed(processed_messages, message_id, source,
                                   timestamp, now)
    /\ last' = [NoOp EXCEPT !.op = "record", !.message_id = message_id,
                            !.source = source,
                            !.seen_before =
                                _is_message_processed(processed_messages,
                                                      message_id, source)]
    /\ UNCHANGED <<config_vars, nodes, radios, now, sink, http_vars,
                   serial_vars, erred>>

\* time passes
Tick(t) ==
    /\ t > now
    /\ now' = t
    /\ last' = [NoOp EXCEPT !.op = "tick"]
    /\ UNCHANGED <<config_vars, db_vars, sink, http_vars, serial_vars, erred>>

\* bot.conn.close(), then MeshtasticDiscordBot() on the same database:
\* _init_database keeps the tables and deletes the old dedup rows
Restart ==
    /\ processed_messages' = PurgeOldMessages(processed_messages, now)
    /\ last' = [NoOp EXCEPT !.op = "restart",
                            !.purged =
                                Cardinality(processed_messages)
                                - Cardinality(processed_messages')]
    /\ session' = "none"
    /\ http_pc' = "idle"
    /\ poll_count' = 0
    /\ cycle' = [r \in RadioNames |-> "pending"]
    /\ serial_pc' = "idle"
    /\ meshtastic_interface' = "none"
    /\ last_packet_time' = 0
    /\ packet_queue' = <<>>
    /\ queue_pc' = "idle"
    /\ erred' = FALSE
    /\ UNCHANGED <<config_vars, nodes, radios, now, sink, poll_interval>>

NextStore ==
    \/ \E i \in RecordInputs, source \in StoreSources :
           Record(i.message_id, source, i.timestamp)
    \/ \E t \in Instants : Tick(t)
    \/ Restart

SpecStore == InitStore /\ [][NextStore]_vars

-----------------------------------------------------------------------------
(* The HTTP side: on_ready, on_disconnect, _monitor_radios_http and the    *)
(* polls of one cycle, which complete in any order                         *)

\* the cycles the model runs
MaxPolls == 2

\* POLL_INTERVAL: the default, and half an hour (a recycle every 2 cycles)
PollIntervals == {2, 1800}

\* FromRadio { packet: TextPacket }
TextFrame ==
    [from_radio |-> {[variant |-> "packet", packet |-> TextPacket]},
     mesh_packet |-> {}]

\* FromRadio { node_info: NodeInfo { num, user } }
NodeInfoFrame ==
    [from_radio |-> {[variant |-> "node_info",
                      node_info |-> [num |-> 48879, user |-> Alice]]},
     mesh_packet |-> {}]

\* FromRadio { my_info: MyNodeInfo { my_node_num } }
MyInfoFrame ==
    [from_radio |-> {[variant |-> "my_info",
                      my_info |-> [my_node_num |-> 305419896]]},
     mesh_packet |-> {}]

\* FromRadio { config: Config {...} }
ConfigFrame == [from_radio |-> {[variant |-> "config"]}, mesh_packet |-> {}]

\* bytes that FromRadio rejects and MeshPacket parses
BareFrame == [from_radio |-> {}, mesh_packet |-> {PositionPacket}]

\* bytes that both parsers take: a bare MeshPacket whose fields FromRadio
\* skips as unknown, leaving an envelope with no field set
DualFrame ==
    [from_radio |-> {[variant |-> "none"]}, mesh_packet |-> {PositionPacket}]

\* bytes that neither parser takes
GarbageFrame == [from_radio |-> {}, mesh_packet |-> {}]

Frames ==
    {TextFrame, NodeInfoFrame, MyInfoFrame, ConfigFrame, BareFrame,
     DualFrame, GarbageFrame}

\* what a radio answers to GET /api/v1/fromradio
Responses ==
    {Response(200, b) : b \in Frames \cup {EmptyBody}}
    \cup {Response(503, EmptyBody), Response(503, TextFrame),
          Response(404, TextFrame), Response(500, EmptyBody),
          TimedOut, ConnectionFailed}

\* the MeshPacket a body carries, if it carries one
FramePacket(body) ==
    IF body.from_radio # {}
    THEN LET f == CHOOSE f \in body.from_radio : TRUE
         IN  IF f.variant = "packet" THEN f.packet ELSE NoPacket
    ELSE IF body.mesh_packet # {}
    THEN CHOOSE m \in body.mesh_packet : TRUE
    ELSE NoPacket

InitHttp ==
    \E c \in Configs, i \in PollIntervals :
        Constructed([c EXCEPT !.poll_interval = i])

\* on_ready in HTTP mode: the session is created and the monitor starts
OnReady ==
    /\ connection_method # "serial"
    /\ http_pc = "idle"
    /\ session' = "open"
    /\ http_pc' = "polling"
    /\ tasks' = [tasks EXCEPT !.monitor_radios_http = @ + 1]
    /\ last' = [NoOp EXCEPT !.op = "ready"]
    /\ UNCHANGED <<static_vars, db_vars, now, sink, poll_interval,
                   poll_count, cycle, serial_vars, erred>>

\* on_disconnect: `if self.session: await self.session.close()` and
\* `if self.meshtastic_interface: self.meshtastic_interface.close()`;
\* neither attribute is cleared
OnDisconnect ==
    /\ session = "open" \/ meshtastic_interface = "open"
    /\ session' = IF session = "open" THEN "closed" ELSE session
    /\ meshtastic_interface' =
           IF meshtastic_interface = "open" THEN "lost"
           ELSE meshtastic_interface
    /\ last' = [NoOp EXCEPT !.op = "disconnect"]
    /\ UNCHANGED <<config_vars, db_vars, now, sink, poll_interval, http_pc,
                   poll_count, cycle, serial_pc, last_packet_time,
                   packet_queue, queue_pc, erred>>

\* the decoder, the transport or the Sink failed during a poll
PollErred(sess, response, env, res) ==
    \/ PollResult(sess, response) = "failed"
    \/ res.path = "dropped"
    \/ res.attempted /\ SinkFailed(env)

\* _monitor_radios_http after one task of the gather is done:
\* return_exceptions=True keeps an exception of the task inside the
\* gather's result, and the loop's own except clause stands behind it
AfterPoll(raised) == "polling"

\* The state after _poll_radio_http(radio) returned res.
Polled(radio_name, response, env, res) ==
    LET p == IF res.handed = <<>> THEN NoPacket
             ELSE FramePacket(res.handed[1])
        message_id == MessageId(p.from, p.id)
    IN  /\ processed_messages' = res.processed_messages
        /\ nodes' = res.nodes
        /\ radios' = res.radios
        /\ sink' = sink (+) SetToBag(SinkEntries(message_id, radio_name,
                                                 res.calls))
        /\ cycle' = [cycle EXCEPT ![radio_name] = PollResult(session, response)]
        /\ last' = [NoOp EXCEPT
                       !.op = "poll", !.packet = p,
                       !.message_id = message_id, !.source = radio_name,
                       !.env = env, !.response = response,
                       !.handed = res.handed, !.path = res.path,
                       !.seen_before =
                           _is_message_processed(processed_messages,
                                                 message_id, radio_name),
                       !.attempted = res.attempted, !.calls = res.calls,
                       !.escaped = res.raised, !.erred_before = erred,
                       !.after_failure =
                           \E q \in RadioNames : cycle[q] = "failed"]
        /\ http_pc' = AfterPoll(res.raised)
        /\ erred' = (erred \/ PollErred(session, response, env, res))
        /\ UNCHANGED <<config_vars, now, session, poll_interval, poll_count,
                       serial_vars>>

\* One task of the gather runs to its end. On a session that is not open
\* the request fails before any answer arrives.
PollRadio(radio_name) ==
    /\ http_pc = "polling"
    /\ radio_name \in PendingPolls(cycle)
    /\ \E response \in IF session = "open" THEN Responses
                                          ELSE {ConnectionFailed} :
         \E quiet \in {_poll_radio_http(Db, Cfg, session, radio_name,
                                        response, NoEnv, now)} :
            IF quiet.attempted
            THEN \E env \in SinkEnvs :
                   \E res \in {_poll_radio_http(Db, Cfg, session, radio_name,
                                                response, env, now)} :
                      Polled(radio_name, response, env, res)
            ELSE Polled(radio_name, response, NoEnv, quiet)

\* The gather has returned: poll_count += 1, the sleep, and the top of the
\* next iteration with its hourly recreation of the session.
NextCycle ==
    /\ http_pc = "polling"
    /\ PendingPolls(cycle) = {}
    /\ poll_count < MaxPolls
    /\ poll_count' = poll_count + 1
    /\ session' = IF RecycleDue(poll_count + 1, poll_interval)
                  THEN "open" ELSE session
    /\ cycle' = [r \in RadioNames |-> "pending"]
    /\ last' = [NoOp EXCEPT
                   !.op = "cycle",
                   !.result = [recycled |->
                                   RecycleDue(poll_count + 1, poll_interval)]]
    /\ UNCHANGED <<config_vars, db_vars, now, sink, poll_interval, http_pc,
                   serial_vars, erred>>

NextHttp ==
    \/ OnReady
    \/ OnDisconnect
    \/ \E radio_name \in RadioNames : PollRadio(radio_name)
    \/ NextCycle

SpecHttp == InitHttp /\ [][NextHttp]_vars

\* POLL_INTERVAL for the recycling of the session: half an hour, 50
\* minutes (3600 / 3000 is 1.2, no float) and two hours
RecycleIntervals == {1800, 3000, 7200}

InitRecycle ==
    \E i \in RecycleIntervals :
        Constructed([filters |-> DefaultFilters, signal |-> TRUE,
                     poll_interval |-> i, connection_method |-> "http",
                     serial_timeout |-> 240])

SpecRecycle == InitRecycle /\ [][NextHttp]_vars

-----------------------------------------------------------------------------
(* The serial side: on_ready, _monitor_serial, the packet callback of the  *)
(* interface's reader thread, and _process_packet_queue                    *)

\* the seconds of wall clock the model follows the monitor for
MaxElapsed == 200

\* the packets the queue holds at most (asyncio.Queue() has no limit)
MaxQueue == 2

\* SERIAL_TIMEOUT: one minute, and the default
SerialTimeouts == {60, 240}

\* the packets the serial interface delivers
SerialPackets == {TextPacket, EncryptedPacket}

\* `await self.packet_queue.put(('serial', packet))`
SerialSource == "serial"

CheckInterval == 30
RetryDelay == 30
BackoffDelay == 10
StabilizationDelay == 2
CleanupDelay == 2

InitSerial ==
    \E c \in Configs, t \in SerialTimeouts :
        Constructed([c EXCEPT !.connection_method = "serial",
                              !.serial_timeout = t])

\* the latest instant the model lets the clock reach
Horizon == 1700000000 + MaxElapsed

\* on_ready in serial mode: the monitor and the queue processor start
OnReadySerial ==
    /\ connection_method = "serial"
    /\ serial_pc = "idle"
    /\ serial_pc' = "connecting"
    /\ queue_pc' = "running"
    /\ tasks' = [tasks EXCEPT !.monitor_serial = @ + 1,
                              !.process_packet_queue = @ + 1]
    /\ last' = [NoOp EXCEPT !.op = "ready"]
    /\ UNCHANGED <<static_vars, db_vars, now, sink, http_vars,
                   meshtastic_interface, last_packet_time, packet_queue,
                   erred>>

\* mutant: a failed creation ends the monitor
AfterCreate_giving_up(interface) ==
    IF interface = "none" THEN "dead" ELSE "connected"

\* _monitor_serial after _create_serial_interface returned: None sends it
\* to the 30 second sleep and `continue`
AfterCreate(interface) ==
    IF interface = "none" THEN "retry_wait" ELSE "connected"

\* _create_serial_interface: the interface, or None when SerialInterface
\* raised (every exception is caught and logged)
_create_serial_interface(ok) == IF ok THEN "open" ELSE "none"

\* the top of the outer loop: create the interface, and on success store it
\* and set last_packet_time to now
CreateInterface ==
    /\ serial_pc = "connecting"
    /\ \E ok \in BOOLEAN :
         \E interface \in {_create_serial_interface(ok)} :
            /\ now' = IF ok THEN now + StabilizationDelay ELSE now
            /\ now' <= Horizon
            /\ serial_pc' = AfterCreate(interface)
            /\ meshtastic_interface' =
                   IF interface = "none" THEN meshtastic_interface
                   ELSE interface
            /\ last_packet_time' =
                   IF interface = "none" THEN last_packet_time ELSE now'
            /\ erred' = (erred \/ interface = "none")
            /\ last' = [NoOp EXCEPT !.op = "create"]
    /\ UNCHANGED <<config_vars, db_vars, sink, http_vars, packet_queue,
                   queue_pc>>

\* `await asyncio.sleep(30); continue` after a failed creation
RetryWait ==
    /\ serial_pc = "retry_wait"
    /\ now + RetryDelay <= Horizon
    /\ now' = now + RetryDelay
    /\ serial_pc' = "connecting"
    /\ last' = [NoOp EXCEPT !.op = "retry_wait"]
    /\ UNCHANGED <<config_vars, db_vars, sink, http_vars,
                   meshtastic_interface, last_packet_time, packet_queue,
                   queue_pc, erred>>

\* mutant: a gap equal to the timeout already counts as a timeout
HealthCheck_inclusive(interface, last_time, t, timeout) ==
    IF last_time # 0 /\ t - last_time >= timeout THEN "break"
    ELSE IF interface = "none" THEN "break"
    ELSE "stay"

\* mutant: the timeout test is never taken
HealthCheck_no_timeout(interface, last_time, t, timeout) ==
    IF interface = "none" THEN "break" ELSE "stay"

\* one pass of the inner loop after its sleep, at time t: "break" leaves
\* the loop, "stay" sleeps again
HealthCheck(interface, last_time, t, timeout) ==
    IF last_time # 0 /\ t - last_time > timeout THEN "break"
    ELSE IF interface = "none" THEN "break"
    ELSE "stay"

\* the 30 second sleep of the inner loop and the checks that follow it
CheckHealth ==
    /\ serial_pc = "connected"
    /\ now + CheckInterval <= Horizon
    /\ now' = now + CheckInterval
    /\ \E verdict \in {HealthCheck(meshtastic_interface, last_packet_time,
                                   now', serial_timeout)} :
         /\ serial_pc' = IF verdict = "break" THEN "closing" ELSE "connected"
         /\ erred' = (erred \/ verdict = "break")
         /\ last' = [NoOp EXCEPT !.op = "check"]
    /\ UNCHANGED <<config_vars, db_vars, sink, http_vars,
                   meshtastic_interface, last_packet_time, packet_queue,
                   queue_pc>>

\* _close_serial_interface: close() is called on an interface that is not
\* None, the 2 second sleep follows unless close() raised, and the finally
\* clause clears the attribute
_close_serial_interface(interface, close_raises) ==
    [interface |-> "none",
     closed |-> interface # "none",
     slept |-> IF interface # "none" /\ ~close_raises
               THEN CleanupDelay ELSE 0]

\* "Clean up before reconnecting": _close_serial_interface after the inner
\* loop was left
CloseInterface ==
    /\ serial_pc = "closing"
    /\ \E close_raises \in IF meshtastic_interface = "none" THEN {FALSE}
                           ELSE BOOLEAN :
         \E r \in {_close_serial_interface(meshtastic_interface,
                                           close_raises)} :
            /\ now + r.slept <= Horizon
            /\ now' = now + r.slept
            /\ meshtastic_interface' = r.interface
            /\ last' = [NoOp EXCEPT !.op = "close", !.attempted = r.closed,
                                    !.escaped = FALSE]
    /\ serial_pc' = "backoff"
    /\ UNCHANGED <<config_vars, db_vars, sink, http_vars, last_packet_time,
                   packet_queue, queue_pc, erred>>

\* "Waiting 10 seconds before reconnection..."
Backoff ==
    /\ serial_pc = "backoff"
    /\ now + BackoffDelay <= Horizon
    /\ now' = now + BackoffDelay
    /\ serial_pc' = "connecting"
    /\ last' = [NoOp EXCEPT !.op = "backoff"]
    /\ UNCHANGED <<config_vars, db_vars, sink, http_vars,
                   meshtastic_interface, last_packet_time, packet_queue,
                   queue_pc, erred>>

\* asyncio.Queue(): maxsize is 0, which asyncio takes as no limit
QueueMaxsize == 0

\* Queue.full(): never, for a maxsize that is not positive
Full(queue) == QueueMaxsize > 0 /\ Len(queue) >= QueueMaxsize

\* packet_handler_wrapper -> _packet_callback -> _queue_packet: the reader
\* thread of an open interface hands over packet p, and put() appends it
\* as soon as the queue is not full
PacketArrives(p) ==
    /\ meshtastic_interface = "open"
    /\ ~Full(packet_queue)
    /\ Len(packet_queue) < MaxQueue
    /\ last_packet_time' = now
    /\ packet_queue' = Append(packet_queue, <<SerialSource, p>>)
    /\ last' = [NoOp EXCEPT !.op = "arrive", !.packet = p]
    /\ UNCHANGED <<config_vars, db_vars, now, sink, http_vars, serial_pc,
                   meshtastic_interface, queue_pc, erred>>

\* the device is unplugged or stops answering: the reader thread ends, the
\* interface object stays
DeviceLost ==
    /\ meshtastic_interface = "open"
    /\ meshtastic_interface' = "lost"
    /\ erred' = TRUE
    /\ last' = [NoOp EXCEPT !.op = "lost"]
    /\ UNCHANGED <<config_vars, db_vars, now, sink, http_vars, serial_pc,
                   last_packet_time, packet_queue, queue_pc>>

\* mutant: the consumer ends after the first packet
AfterQueued_stopping(escaped) == "dead"

\* _process_packet_queue after _process_mesh_packet returned or raised:
\* the except clause logs, sleeps a second and the loop goes on
AfterQueued(escaped) == "running"

\* The state after the queue processor handled its first entry.
Dequeued(source, p, env, r) ==
    LET message_id == MessageId(p.from, p.id)
    IN  /\ processed_messages' = r.processed_messages
        /\ nodes' = r.nodes
        /\ sink' = sink (+) SetToBag(SinkEntries(message_id, source, r.calls))
        /\ packet_queue' = Tail(packet_queue)
        /\ queue_pc' = AfterQueued(r.escaped)
        /\ erred' = (erred \/ (r.attempted /\ SinkFailed(env)))
        /\ last' = [NoOp EXCEPT
                       !.op = "queue", !.packet = p,
                       !.message_id = message_id, !.source = source,
                       !.env = env,
                       !.seen_before =
                           _is_message_processed(processed_messages,
                                                 message_id, source),
                       !.attempted = r.attempted, !.calls = r.calls,
                       !.escaped = r.escaped, !.erred_before = erred]
        /\ UNCHANGED <<config_vars, radios, now, http_vars, serial_pc,
                       meshtastic_interface, last_packet_time>>

\* one iteration of _process_packet_queue
ProcessQueued ==
    /\ queue_pc = "running"
    /\ packet_queue # <<>>
    /\ \E source \in {Head(packet_queue)[1]}, p \in {Head(packet_queue)[2]} :
         \E quiet \in {_process_mesh_packet(Db, Cfg, p, source, NoEnv, now)} :
            IF quiet.attempted
            THEN \E env \in SinkEnvs :
                   \E r \in {_process_mesh_packet(Db, Cfg, p, source, env,
                                                  now)} :
                      Dequeued(source, p, env, r)
            ELSE Dequeued(source, p, NoEnv, quiet)

NextSerial ==
    \/ OnReadySerial
    \/ OnDisconnect
    \/ CreateInterface
    \/ RetryWait
    \/ CheckHealth
    \/ CloseInterface
    \/ Backoff
    \/ \E p \in SerialPackets : PacketArrives(p)
    \/ DeviceLost
    \/ ProcessQueued

SpecSerial == InitSerial /\ [][NextSerial]_vars

\* the event loop runs a task that is ready: the consumer, waiting in
\* packet_queue.get(), goes on once the queue holds a packet
InitQueue ==
    Constructed([filters |-> DefaultFilters, signal |-> TRUE,
                 poll_interval |-> 2, connection_method |-> "serial",
                 serial_timeout |-> 60])

SpecQueueFair ==
    InitQueue /\ [][NextSerial]_vars /\ WF_vars(ProcessQueued)

\* the event loop resumes _monitor_serial whenever what it awaits is done:
\* the executor's future of _create_serial_interface and each
\* asyncio.sleep complete in finite time
SpecMonitorFair ==
    /\ InitQueue
    /\ [][NextSerial]_vars
    /\ WF_vars(CreateInterface)
    /\ WF_vars(RetryWait)
    /\ WF_vars(CheckHealth)
    /\ WF_vars(CloseInterface)
    /\ WF_vars(Backoff)

\* what the library's handler does on each of its calls for one packet:
\* <<first, second>>, TRUE for a call that raises
HandlerOutcomes == {<<FALSE, FALSE>>, <<TRUE, FALSE>>, <<TRUE, TRUE>>}

\* packet_handler_wrapper(packet): _packet_callback catches what it meets
\* and returns, original_handle_packet is called inside the try, and when
\* that call raises the except clause calls it again. Returns the calls
\* made to the original handler and whether an exception leaves the wrapper
packet_handler_wrapper(raises) ==
    [original_calls |-> IF raises[1] THEN 2 ELSE 1,
     raised |-> raises[1] /\ raises[2]]

\* the reader thread of an open interface calls the installed wrapper with
\* packet p: _packet_callback notes the time and schedules _queue_packet
\* (or logs its own failure, when the loop takes no more callbacks), then
\* the library's handler runs
HandlePacket(p) ==
    /\ meshtastic_interface = "open"
    /\ ~Full(packet_queue)
    /\ Len(packet_queue) < MaxQueue
    /\ last_packet_time' = now
    /\ \E callback_fails \in BOOLEAN, raises \in HandlerOutcomes :
         \E r \in {packet_handler_wrapper(raises)} :
            /\ packet_queue' =
                   IF callback_fails THEN packet_queue
                   ELSE Append(packet_queue, <<SerialSource, p>>)
            /\ last' = [NoOp EXCEPT !.op = "handle", !.packet = p,
                                    !.attempted = ~callback_fails,
                                    !.escaped = r.raised,
                                    !.result = r]
    /\ UNCHANGED <<config_vars, db_vars, now, sink, http_vars, serial_pc,
                   meshtastic_interface, queue_pc, erred>>

NextWrapper ==
    \/ OnReadySerial
    \/ CreateInterface
    \/ RetryWait
    \/ CheckHealth
    \/ CloseInterface
    \/ Backoff
    \/ \E p \in SerialPackets : HandlePacket(p)
    \/ ProcessQueued

SpecWrapper == InitQueue /\ [][NextWrapper]_vars

\* both transports: the connection method is the one CONNECTION_METHOD names
InitIngest == InitHttp \/ InitSerial

NextIngest == NextHttp \/ NextSerial

SpecIngest == InitIngest /\ [][NextIngest]_vars

-----------------------------------------------------------------------------
(* The formatting methods called directly: _get_message_info,              *)
(* _send_to_discord, _update_node_info and _get_node_name                  *)

\* decoded.portnum: the known ports and their neighbours, and values far
\* outside the table
PortInputs ==
    (-2..12) \cup (63..69) \cup {9999, 2147483647, -2147483647}

\* decoded.payload
PayloadInputs ==
    { <<>>, <<" ", "\n">>, <<"H", "i">>, <<BadByte>>,
      <<" ", "x", BadByte, "\t">> }

\* len(message): short ones, and those around the limit of 2000 and the
\* multiples of 1900
MessageLengths ==
    {0, 1, 7} \cup (1898..1902) \cup (1998..2002) \cup (3798..3802)
        \cup (3999..4001) \cup (5699..5702)

RECURSIVE Repeat(_, _)
Repeat(s, n) ==
    IF n = 0 THEN ""
    ELSE Repeat(s, n \div 2) \o Repeat(s, n \div 2)
             \o (IF n % 2 = 1 THEN s ELSE "")

\* a message of n characters in which no two chunks look alike
MessageOfLength(n) == SubSeq(Repeat("abcdefg", (n + 6) \div 7), 1, n)

Messages == {MessageOfLength(n) : n \in MessageLengths}

\* user_info arguments: both names, the long name only, blank names, the
\* short name only
Bob == [short_name |-> <<>>, long_name |-> <<"B", "o", "b">>]
Blank == [short_name |-> <<" ">>, long_name |-> <<>>]
Cy == [short_name |-> <<" ", "C", "y">>, long_name |-> <<>>]
UserInputs == {Alice, Bob, Blank, Cy}

\* the Sink of a direct _send_to_discord call: as SinkEnvs, and a second
\* send that raises
SendEnvs == SinkEnvs \cup {[channel |-> TRUE, fail_at |-> 2]}

InitFormat == \E c \in Configs : Constructed(c)

\* bot._get_message_info(decoded, from_id, rx_time, source, snr, rssi)
Classify(portnum, bytes, from_id, source) ==
    /\ last' = [NoOp EXCEPT
                   !.op = "classify",
                   !.packet = Packet(from_id, 42, 1699999990, portnum,
                                     bytes, {}),
                   !.source = source,
                   !.result =
                       _get_message_info(
                           nodes, radios, show_signal_strength,
                           Packet(from_id, 42, 1699999990, portnum, bytes,
                                  {}).decoded,
                           from_id, 1699999990, source, "5.5", "-80")]
    /\ UNCHANGED <<config_vars, db_vars, now, sink, http_vars, serial_vars,
                   erred>>

\* await bot._send_to_discord(message)
Send(message, env) ==
    \E r \in {_send_to_discord(message, env)} :
        /\ last' = [NoOp EXCEPT !.op = "send", !.env = env,
                                !.attempted = TRUE, !.calls = r.calls,
                                !.escaped = r.raised,
                                !.result = [message |-> message]]
        /\ sink' = sink
        /\ UNCHANGED <<config_vars, db_vars, now, http_vars, serial_vars,
                       erred>>

\* bot._update_node_info(node_id, user_info)
StoreNode(node_id, user_info) ==
    /\ nodes' = _update_node_info(nodes, node_id, user_info, now)
    /\ last' = [NoOp EXCEPT !.op = "store_node",
                            !.result = [node_id |-> node_id,
                                        user_info |-> user_info]]
    /\ UNCHANGED <<config_vars, processed_messages, radios, now, sink,
                   http_vars, serial_vars, erred>>

\* bot._get_node_name(node_id)
Lookup(node_id) ==
    /\ last' = [NoOp EXCEPT !.op = "lookup",
                            !.result =
                                [node_id |-> node_id,
                                 label |-> _get_node_name(nodes, node_id)]]
    /\ UNCHANGED <<config_vars, db_vars, now, sink, http_vars, serial_vars,
                   erred>>

NextClassify ==
    \E portnum \in PortInputs, bytes \in PayloadInputs,
       from_id \in NodeIds \ {0}, source \in {"RadioA"} :
        Classify(portnum, bytes, from_id, source)

SpecClassify == InitFormat /\ [][NextClassify]_vars

NextLabel ==
    \/ \E node_id \in NodeIds \ {0}, user_info \in UserInputs :
           StoreNode(node_id, user_info)
    \/ \E node_id \in NodeIds \ {0} : Lookup(node_id)
    \/ \E from_id \in NodeIds \ {0}, source \in RadioNames :
           Classify(TEXT_MESSAGE_APP, <<"H", "i">>, from_id, source)

SpecLabel == InitFormat /\ [][NextLabel]_vars

NextSend == \E message \in Messages, env \in SendEnvs : Send(message, env)

SpecSend == InitFormat /\ [][NextSend]_vars

-----------------------------------------------------------------------------
(* Packets whose message is longer than the Sink's limit, through          *)
(* _process_mesh_packet                                                    *)

\* a payload of n characters in which no two chunks look alike
Characters(n) ==
    [i \in 1..n |-> SubSeq("abcdefg", ((i - 1) % 7) + 1, ((i - 1) % 7) + 1)]

\* a text packet whose message takes three channel.send calls
LongTextPacket ==
    Packet(305419896, 46, 1699999990, TEXT_MESSAGE_APP, Characters(3900), {})

ChunkPackets == {LongTextPacket}

\* the Sink of these calls: as SendEnvs, and a third send that raises
ChunkEnvs == SendEnvs \cup {[channel |-> TRUE, fail_at |-> 3]}

\* _process_mesh_packet(p, source), run to its end
DeliverLong(p, source) ==
    \E quiet \in {_process_mesh_packet(Db, Cfg, p, source, NoEnv, now)} :
        IF quiet.attempted
        THEN \E env \in ChunkEnvs :
                \E r \in {_process_mesh_packet(Db, Cfg, p, source, env, now)} :
                    Delivered(p, source, env, r)
        ELSE Delivered(p, source, NoEnv, quiet)

NextChunks ==
    \E p \in ChunkPackets, source \in RadioNames : DeliverLong(p, source)

SpecChunks == Init /\ [][NextChunks]_vars

-----------------------------------------------------------------------------
(* The ready event of the Discord client: it fires on login and again      *)
(* whenever the client has to open a new gateway session after a           *)
(* disconnect; on_ready runs each time                                     *)

MaxReady == 2

\* how often on_ready has run
Firings == tasks.monitor_serial + tasks.monitor_radios_http

\* on_ready when it has run before: the same create_task calls are made
\* again, and in HTTP mode self.session is replaced by a new ClientSession;
\* the tasks of the earlier run go on where they are
OnReadyAgain ==
    /\ Firings >= 1
    /\ Firings < MaxReady
    /\ tasks' = IF connection_method = "serial"
                THEN [tasks EXCEPT !.monitor_serial = @ + 1,
                                   !.process_packet_queue = @ + 1]
                ELSE [tasks EXCEPT !.monitor_radios_http = @ + 1]
    /\ session' = IF connection_method = "serial" THEN session ELSE "open"
    /\ second_pc' = IF connection_method = "serial" THEN "connecting"
                    ELSE second_pc
    /\ last' = [NoOp EXCEPT !.op = "ready"]
    /\ UNCHANGED <<settings_vars, inflight, resync, db_vars, now, sink,
                   poll_interval, http_pc, poll_count, cycle, serial_vars,
                   erred>>

\* what a step of the second monitor leaves alone besides the attributes
\* it shares with the first
second_frame ==
    <<settings_vars, inflight, resync, tasks, db_vars, sink, http_vars,
      serial_pc, packet_queue, queue_pc>>

\* _monitor_serial as the task of the second ready event runs it: the same
\* loop on the same self.meshtastic_interface and self.last_packet_time,
\* at its own position
SecondMonitor ==
    \/ /\ second_pc = "connecting"
       /\ \E ok \in BOOLEAN :
            \E interface \in {_create_serial_interface(ok)} :
               /\ now' = IF ok THEN now + StabilizationDelay ELSE now
               /\ now' <= Horizon
               /\ second_pc' = AfterCreate(interface)
               /\ meshtastic_interface' =
                      IF interface = "none" THEN meshtastic_interface
                      ELSE interface
               /\ last_packet_time' =
                      IF interface = "none" THEN last_packet_time ELSE now'
               /\ erred' = (erred \/ interface = "none")
               /\ last' = [NoOp EXCEPT !.op = "create"]
       /\ UNCHANGED second_frame
    \/ /\ second_pc = "retry_wait"
       /\ now + RetryDelay <= Horizon
       /\ now' = now + RetryDelay
       /\ second_pc' = "connecting"
       /\ last' = [NoOp EXCEPT !.op = "retry_wait"]
       /\ UNCHANGED <<second_frame, meshtastic_interface, last_packet_time,
                      erred>>
    \/ /\ second_pc = "connected"
       /\ now + CheckInterval <= Horizon
       /\ now' = now + CheckInterval
       /\ \E verdict \in {HealthCheck(meshtastic_interface,
                                      last_packet_time, now',
                                      serial_timeout)} :
            /\ second_pc' = IF verdict = "break" THEN "closing"
                            ELSE "connected"
            /\ erred' = (erred \/ verdict = "break")
            /\ last' = [NoOp EXCEPT !.op = "check"]
       /\ UNCHANGED <<second_frame, meshtastic_interface, last_packet_time>>
    \/ /\ second_pc = "closing"
       /\ \E close_raises \in IF meshtastic_interface = "none" THEN {FALSE}
                              ELSE BOOLEAN :
            \E r \in {_close_serial_interface(meshtastic_interface,
                                              close_raises)} :
               /\ now + r.slept <= Horizon
               /\ now' = now + r.slept
               /\ meshtastic_interface' = r.interface
               /\ last' = [NoOp EXCEPT !.op = "close",
                                       !.attempted = r.closed,
                                       !.escaped = FALSE]
       /\ second_pc' = "backoff"
       /\ UNCHANGED <<second_frame, last_packet_time, erred>>
    \/ /\ second_pc = "backoff"
       /\ now + BackoffDelay <= Horizon
       /\ now' = now + BackoffDelay
       /\ second_pc' = "connecting"
       /\ last' = [NoOp EXCEPT !.op = "backoff"]
       /\ UNCHANGED <<second_frame, meshtastic_interface, last_packet_time,
                      erred>>

InitReady ==
    \E c \in Configs, method \in {"http", "serial"} :
        Constructed([c EXCEPT !.connection_method = method,
                              !.serial_timeout = 60])

NextReady ==
    \/ OnReady
    \/ OnReadySerial
    \/ OnReadyAgain
    \/ SecondMonitor
    \/ OnDisconnect
    \/ CreateInterface
    \/ RetryWait
    \/ CheckHealth
    \/ CloseInterface
    \/ Backoff
    \/ DeviceLost

SpecReady == InitReady /\ [][NextReady]_vars

-----------------------------------------------------------------------------
(* Two tasks inside _process_mesh_packet: the tasks of one event loop      *)
(* interleave at the awaits, and the only await of the method is the       *)
(* channel.send inside _send_to_discord                                    *)

RacePackets == {TextPacket}

\* the instants of the two-task runs
RaceInstants == {1700000001}

\* lines 610-625, run when `await self._send_to_discord(...)` has returned:
\* the dedup record is written and a node-info payload is stored, on the
\* tables as they are by then
AfterSend(db, packet, source, t) ==
    LET user == packet.decoded.payload.user
    IN  [processed_messages |->
             _mark_message_processed(db.processed_messages,
                                     MessageId(packet.from, packet.id),
                                     source, packet.rx_time, t),
         nodes |->
             IF packet.decoded.portnum = NODEINFO_APP /\ user # {}
             THEN _update_node_info(db.nodes, packet.from,
                                    CHOOSE u \in user : TRUE, t)
             ELSE db.nodes]

\* a task enters _process_mesh_packet(p, source) and runs to the first
\* await: when the method does not reach channel.send (no sender, key on
\* record, no payload, filtered, no channel) it runs to its end in one
\* step; otherwise the task is suspended in channel.send
Begin(task, p, source) ==
    /\ inflight[task].pc = "out"
    /\ \E quiet \in {_process_mesh_packet(Db, Cfg, p, source, NoEnv, now)} :
         IF quiet.attempted
         THEN \E env \in SinkEnvs :
                \E r \in {_process_mesh_packet(Db, Cfg, p, source, env,
                                               now)} :
                   IF env.channel
                   THEN /\ inflight' =
                              [inflight EXCEPT ![task] =
                                  [pc |-> "sending", packet |-> p,
                                   source |-> source, env |-> env,
                                   calls |-> r.calls]]
                        /\ last' = [NoOp EXCEPT
                                       !.op = "begin", !.packet = p,
                                       !.message_id =
                                           MessageId(p.from, p.id),
                                       !.source = source, !.env = env,
                                       !.attempted = TRUE]
                        /\ UNCHANGED <<processed_messages, nodes, sink>>
                   ELSE /\ processed_messages' = r.processed_messages
                        /\ nodes' = r.nodes
                        /\ last' = [NoOp EXCEPT
                                       !.op = "packet", !.packet = p,
                                       !.message_id =
                                           MessageId(p.from, p.id),
                                       !.source = source, !.env = env,
                                       !.attempted = TRUE]
                        /\ UNCHANGED <<inflight, sink>>
         ELSE /\ processed_messages' = quiet.processed_messages
              /\ nodes' = quiet.nodes
              /\ last' = [NoOp EXCEPT
                             !.op = "packet", !.packet = p,
                             !.message_id = MessageId(p.from, p.id),
                             !.source = source,
                             !.seen_before =
                                 _is_message_processed(
                                     processed_messages,
                                     MessageId(p.from, p.id), source)]
              /\ UNCHANGED <<inflight, sink>>
    /\ UNCHANGED <<second_pc, message_filters, show_signal_strength,
                   connection_method,
                   serial_timeout, startup, conn, resync, tasks, radios,
                   now, http_vars, serial_vars, erred>>

\* channel.send has returned or raised (the except clause of
\* _send_to_discord logs it): the task goes on behind the await
Resume(task) ==
    /\ inflight[task].pc = "sending"
    /\ \E f \in {inflight[task]} :
         \E r \in {AfterSend(Db, f.packet, f.source, now)} :
            /\ processed_messages' = r.processed_messages
            /\ nodes' = r.nodes
            /\ sink' = sink (+) SetToBag(SinkEntries(
                           MessageId(f.packet.from, f.packet.id),
                           f.source, f.calls))
            /\ last' = [NoOp EXCEPT
                           !.op = "resume", !.packet = f.packet,
                           !.message_id =
                               MessageId(f.packet.from, f.packet.id),
                           !.source = f.source, !.env = f.env,
                           !.seen_before =
                               _is_message_processed(
                                   processed_messages,
                                   MessageId(f.packet.from, f.packet.id),
                                   f.source),
                           !.attempted = TRUE, !.calls = f.calls]
    /\ inflight' = [inflight EXCEPT ![task] = NotInside]
    /\ UNCHANGED <<second_pc, message_filters, show_signal_strength,
                   connection_method,
                   serial_timeout, startup, conn, resync, tasks, radios,
                   now, http_vars, serial_vars, erred>>

NextRace ==
    \/ \E task \in TaskNames, p \in RacePackets, source \in RadioNames :
         Begin(task, p, source)
    \/ \E task \in TaskNames : Resume(task)
    \/ \E t \in RaceInstants : Tick(t)

SpecRace == Init /\ [][NextRace]_vars

-----------------------------------------------------------------------------
(* The serial byte stream: frames are found in a growing buffer by window  *)
(* search. meshcord_bot.py holds no byte buffer (it hands the port to the  *)
(* radio library's SerialInterface), so this part follows the design      *)
(* document's description of the resynchronizer.                           *)

MaxGarbage == 2

\* the smallest frame and the largest window tried (2 and 4 bytes stand
\* for the design's minimum frame size and its 200 byte maximum)
MinFrameSize == 2
MaxWindowLength == 4

ByteValues == {0, 1}

\* the byte sequences of length lo..hi
ByteStrings(lo, hi) ==
    UNION {[1..n -> ByteValues] : n \in lo..hi}

\* the envelopes fed after the garbage
Envelopes == {<<1, 0>>, <<1, 0, 1>>, <<0, 1, 1, 0>>}

\* the window sizes tried on a buffer
WindowSizes(buffer) == MinFrameSize..Min(MaxWindowLength, Len(buffer))

\* every window of a buffer, at every offset
Windows(buffer) ==
    UNION {{SubSeq(buffer, i, i + n - 1) :
                n \in MinFrameSize..Min(MaxWindowLength,
                                        Len(buffer) - i + 1)} :
           i \in 1..Len(buffer)}

\* the sizes of the windows at offset 0 that decode
DecodableSizes(buffer, decodes) ==
    {n \in WindowSizes(buffer) : SubSeq(buffer, 1, n) \in decodes}

\* mutant: a failed offset costs two bytes
ResyncStep_skipping(buffer, decodes) ==
    LET sizes == DecodableSizes(buffer, decodes)
        n == CHOOSE k \in sizes : \A j \in sizes : k <= j
    IN  IF sizes # {}
        THEN [emitted |-> <<SubSeq(buffer, 1, n)>>,
              buffer |-> SubSeq(buffer, n + 1, Len(buffer)), dropped |-> 0]
        ELSE [emitted |-> <<>>,
              buffer |-> SubSeq(buffer, 3, Len(buffer)), dropped |-> 2]

\* one round of the window search: the first (smallest) window at offset 0
\* that decodes is emitted and removed; when none decodes one leading byte
\* is dropped
ResyncStep(buffer, decodes) ==
    LET sizes == DecodableSizes(buffer, decodes)
        n == CHOOSE k \in sizes : \A j \in sizes : k <= j
    IN  IF sizes # {}
        THEN [emitted |-> <<SubSeq(buffer, 1, n)>>,
              buffer |-> SubSeq(buffer, n + 1, Len(buffer)), dropped |-> 0]
        ELSE [emitted |-> <<>>, buffer |-> Tail(buffer), dropped |-> 1]

\* the search goes on until fewer bytes than a frame are left
AfterStep(buffer) ==
    IF Len(buffer) < MinFrameSize THEN "done" ELSE "scanning"

InitResync == Init

\* the stream delivers garbage followed by one envelope; decodes is the
\* set of byte strings the decoder accepts, the envelope among them
Feed(garbage, envelope, decodes) ==
    /\ resync.pc = "idle"
    /\ resync' = [pc |-> AfterStep(garbage \o envelope),
                  stream |-> garbage \o envelope,
                  buffer |-> garbage \o envelope, emitted |-> <<>>,
                  decodes |-> decodes, garbage |-> Len(garbage),
                  envelope |-> envelope, dropped |-> 0]
    /\ last' = [NoOp EXCEPT !.op = "feed"]
    /\ UNCHANGED <<second_pc, message_filters, show_signal_strength,
                   connection_method,
                   serial_timeout, startup, conn, inflight, tasks, db_vars,
                   now, sink, http_vars, serial_vars, erred>>

Resynchronize ==
    /\ resync.pc = "scanning"
    /\ \E r \in {ResyncStep(resync.buffer, resync.decodes)} :
         resync' = [resync EXCEPT
                       !.pc = AfterStep(r.buffer),
                       !.buffer = r.buffer,
                       !.emitted = resync.emitted \o r.emitted,
                       !.dropped = resync.dropped + r.dropped]
    /\ last' = [NoOp EXCEPT !.op = "resync"]
    /\ UNCHANGED <<second_pc, message_filters, show_signal_strength,
                   connection_method,
                   serial_timeout, startup, conn, inflight, tasks, db_vars,
                   now, sink, http_vars, serial_vars, erred>>

NextResync ==
    \/ \E garbage \in ByteStrings(0, MaxGarbage), envelope \in Envelopes :
         \E w1, w2 \in Windows(garbage \o envelope) :
            Feed(garbage, envelope, {envelope, w1, w2})
    \/ Resynchronize

SpecResync == InitResync /\ [][NextResync]_vars

-----------------------------------------------------------------------------
(* Startup: main constructs the bot from the environment and runs it      *)

\* os.getenv of the two required variables: the set of the value, empty
\* when the variable is not set
EnvironInputs ==
    [DISCORD_BOT_TOKEN : {{}, {""}, {"test_token"}},
     DISCORD_CHANNEL_ID : {{}, {""}, {"123456"}, {" 42 "}, {"-7"}, {"1_000"},
                           {"not_a_number"}, {"12.5"}, {"12a"}, {"_1"},
                           {"1__0"}, {"+"}}]

\* the characters of a string
Chars(str) == [i \in 1..Len(str) |-> SubSeq(str, i, i)]

Digits == {"0", "1", "2", "3", "4", "5", "6", "7", "8", "9"}

\* int(str) returns: surrounding whitespace and one sign are allowed, then
\* digits, with single underscores between digits
IntAccepts(str) ==
    LET t == Strip(Chars(str))
        body == IF t # <<>> /\ t[1] \in {"+", "-"} THEN Tail(t) ELSE t
    IN  /\ body # <<>>
        /\ \A i \in DOMAIN body : body[i] \in Digits \cup {"_"}
        /\ body[1] # "_"
        /\ body[Len(body)] # "_"
        /\ \A i \in 1..(Len(body) - 1) : ~(body[i] = "_" /\ body[i + 1] = "_")

\* mutant: the token is not looked at
_validate_required_config_no_token(environ) ==
    IF environ.DISCORD_CHANNEL_ID \in {{}, {""}}
    THEN "DISCORD_CHANNEL_ID is required"
    ELSE IF ~IntAccepts(CHOOSE v \in environ.DISCORD_CHANNEL_ID : TRUE)
    THEN "DISCORD_CHANNEL_ID must be a valid integer"
    ELSE "ok"

\* the message of the ValueError raised, "ok" when none is
_validate_required_config(environ) ==
    IF environ.DISCORD_BOT_TOKEN \in {{}, {""}}
    THEN "DISCORD_BOT_TOKEN is required"
    ELSE IF environ.DISCORD_CHANNEL_ID \in {{}, {""}}
    THEN "DISCORD_CHANNEL_ID is required"
    ELSE IF ~IntAccepts(CHOOSE v \in environ.DISCORD_CHANNEL_ID : TRUE)
    THEN "DISCORD_CHANNEL_ID must be a valid integer"
    ELSE "ok"

\* __init__ up to _init_database: the validation, then
\* int(os.getenv('DISCORD_CHANNEL_ID')), which raises on what int rejects.
\* Returns "ok" or the error raised before the database is opened.
ConstructionError(environ) ==
    LET checked == _validate_required_config(environ)
    IN  IF checked # "ok" THEN checked
        ELSE IF environ.DISCORD_CHANNEL_ID = {} THEN "TypeError"
        ELSE IF ~IntAccepts(CHOOSE v \in environ.DISCORD_CHANNEL_ID : TRUE)
        THEN "ValueError"
        ELSE "ok"

\* the serial configuration the startup is followed under
StartupConfig ==
    [filters |-> DefaultFilters, signal |-> TRUE, poll_interval |-> 2,
     connection_method |-> "serial", serial_timeout |-> 60]

InitStartup == Attributes(StartupConfig, "start", "none")

\* bot = MeshtasticDiscordBot(): on an error nothing after the raise runs;
\* otherwise _init_database opens the store and purges it
Construct(environ) ==
    /\ startup = "start"
    /\ \E error \in {ConstructionError(environ)} :
         /\ startup' = IF error = "ok" THEN "constructed" ELSE "failed"
         /\ conn' = IF error = "ok" THEN "open" ELSE conn
         /\ processed_messages' =
                IF error = "ok"
                THEN PurgeOldMessages(processed_messages, now)
                ELSE processed_messages
         /\ last' = [NoOp EXCEPT !.op = "construct",
                                 !.result = [environ |-> environ,
                                             error |-> error]]
    /\ UNCHANGED <<second_pc, message_filters, show_signal_strength,
                   connection_method,
                   serial_timeout, nodes, radios, now, sink, http_vars,
                   serial_vars, erred, tasks, inflight, resync>>

\* main: `await bot.run()` is reached only when the constructor returned
Running == startup = "constructed"

NextStartup ==
    \/ \E environ \in EnvironInputs : Construct(environ)
    \/ Running /\ NextSerial

SpecStartup == InitStartup /\ [][NextStartup]_vars

-----------------------------------------------------------------------------
(* Claims about packet processing, checked under Spec *)

KeyOf(p) == MessageId(p.from, p.id)

\* the number of messages the Sink got for a key and source (first parts)
SinkMessages(message_id, source) ==
    LET of == {e \in BagToSet(sink) : /\ e.message_id = message_id
                                      /\ e.source = source
                                      /\ e.part = 1}
    IN  BagCardinality([e \in of |-> sink[e]])

WasSeen(p, source) == _is_message_processed(processed_messages, KeyOf(p), source)

\* the last operation processed a packet that has a sender and a decoded
\* payload and was not on record
LastUnseenDecoded ==
    /\ last.op = "packet"
    /\ ~last.seen_before
    /\ last.packet.from # 0
    /\ last.packet.decoded.truthy

\* the text of a text packet: decoded and trimmed
TextOf(p) == Join(Strip(DecodeUtf8Ignore(p.decoded.payload.bytes)))

\* C1: whatever packets are delivered one after another, redeliveries
\* included, the Sink gets at most one message per (source_node_id,
\* sequence_id, source name).
C1_ForwardedAtMostOnce ==
    \A p \in Packets, source \in RadioNames :
        SinkMessages(KeyOf(p), source) <= 1

\* C1 witness: a packet that was forwarded has been delivered again.
C1_Witness ==
    /\ last.op = "packet"
    /\ last.seen_before
    /\ last.calls = <<>>
    /\ SinkMessages(KeyOf(last.packet), last.source) = 1

\* C3: an unseen packet whose category is disabled in the filter makes no
\* Sink call and is on record afterwards.
C3_FilteredIsRecorded ==
    (/\ LastUnseenDecoded
     /\ ~_should_process_message_type(
            message_filters, PortType(last.packet.decoded.portnum)))
    => /\ last.calls = <<>>
       /\ WasSeen(last.packet, last.source)

\* C4: a Sink failure (no channel, or send raises) leaves the packet on
\* record, lets no error out of _process_mesh_packet, and the packet
\* delivered next is handled as usual: an unseen one that classifies is
\* recorded, and forwarded when its category is enabled.
C4_SinkFailureIsolated ==
    /\ LastSinkFailed
        => /\ ~last.escaped
           /\ WasSeen(last.packet, last.source)
    /\ (/\ last.after_failure
        /\ LastUnseenDecoded
        /\ last.packet.decoded.portnum = POSITION_APP)
        => /\ ~last.escaped
           /\ WasSeen(last.packet, last.source)
           /\ last.attempted
           /\ (~SinkFailed(last.env) => Len(last.calls) = 1)

\* C4 witness: a Sink call failed, and the next packet was forwarded.
C4_Witness ==
    /\ last.after_failure
    /\ LastUnseenDecoded
    /\ last.packet.decoded.portnum = POSITION_APP
    /\ Len(last.calls) = 1
    /\ ~LastSinkFailed

\* C5: an unseen text packet whose payload is empty or only whitespace makes
\* no Sink call and is on record afterwards.
C5_BlankTextIsRecorded ==
    (/\ LastUnseenDecoded
     /\ last.packet.decoded.portnum = TEXT_MESSAGE_APP
     /\ TextOf(last.packet) = "")
    => /\ last.calls = <<>>
       /\ WasSeen(last.packet, last.source)

\* C36: a packet whose sender id is 0, with a decoded payload that
\* classifies, is handled like any other: when it was not on record it is
\* forwarded if its category is enabled and the Sink has a channel, and it
\* is on record afterwards under the key built from sender id 0 and its
\* packet id.
C36_ZeroSenderHandled ==
    (/\ last.op = "packet"
     /\ last.packet.from = 0
     /\ last.packet.decoded.truthy
     /\ ~last.seen_before
     /\ TextOf(last.packet) # "")
    => /\ WasSeen(last.packet, last.source)
       /\ (/\ _should_process_message_type(
                  message_filters, PortType(last.packet.decoded.portnum))
           /\ last.env.channel)
              => last.attempted

\* C14: an unseen packet on the node-info port whose payload parses as a
\* User with a non-empty short or long name leaves a nodes row for the
\* packet's sender with those names, whether or not the node_info category
\* is enabled and whatever the Sink did.
C14_IdentityStoredDespiteFilter ==
    (/\ LastUnseenDecoded
     /\ last.packet.decoded.portnum = NODEINFO_APP
     /\ last.packet.decoded.payload.user # {}
     /\ \E u \in last.packet.decoded.payload.user :
            Join(Strip(u.short_name)) # "" \/ Join(Strip(u.long_name)) # "")
    => \E u \in last.packet.decoded.payload.user :
           [node_id |-> last.packet.from,
            short_name |-> Join(Strip(u.short_name)),
            long_name |-> Join(Strip(u.long_name)),
            last_seen |-> now] \in nodes

\* C14 witness: with SHOW_NODE_INFO off, a node-info packet made no Sink
\* call and its sender's names are in the nodes table.
C14_Witness ==
    /\ LastUnseenDecoded
    /\ last.packet = NodeInfoPacket
    /\ ~message_filters["node_info"]
    /\ ~last.attempted
    /\ sink = EmptyBag
    /\ \E r \in nodes : r.node_id = 48879 /\ r.long_name = "Alice"

-----------------------------------------------------------------------------
(* Claims about packets without payload and packets that come again,      *)
(* checked under SpecRouter                                                *)

\* C23: a packet that has a source node id but no decoded payload produces
\* no Sink call, no dedup record, no identity update and no error.
C23_UndecodedIgnored ==
    [][(/\ last'.op = "packet"
        /\ last'.packet.from # 0
        /\ ~last'.packet.decoded.has_field)
         => /\ sink' = sink
            /\ processed_messages' = processed_messages
            /\ nodes' = nodes
            /\ ~last'.attempted
            /\ ~last'.escaped]_vars

\* a dedup record exists for the key and the source
Recorded(message_id, source) ==
    \E row \in processed_messages :
        row.message_id = message_id /\ row.source = source

\* C26: processing a packet whose key and source are already recorded
\* changes nothing: no Sink call, no write to the dedup table, and no
\* change to the node table, also for a node-info packet that carries an
\* identity.
C26_DuplicateChangesNothing ==
    [][(/\ last'.op = "packet"
        /\ Recorded(last'.message_id, last'.source))
         => /\ sink' = sink
            /\ processed_messages' = processed_messages
            /\ nodes' = nodes
            /\ radios' = radios
            /\ ~last'.attempted
            /\ last'.calls = <<>>]_vars

\* C26 witness: a node-info packet came again under a key on record, with
\* another identity in its payload, and the node table still holds the
\* identity stored first.
C26_Witness ==
    /\ last.op = "packet"
    /\ last.packet = RenamedNodeInfoPacket
    /\ last.seen_before
    /\ Recorded(last.message_id, last.source)
    /\ \E n \in nodes : n.node_id = 48879 /\ n.short_name = "Al"

-----------------------------------------------------------------------------
(* Claims about classification, checked under SpecClassify *)

\* C15: _get_message_info gives every port one category, fixed by the port
\* alone: the nine known ports give text_messages, position_updates,
\* node_info, routing, admin, detection_sensor, store_forward, range_test
\* and telemetry, every other port, negative and very large ones included,
\* gives unknown; the only call that names no category is the one C16
\* describes, on the text port.
C15_ClassificationTotal ==
    last.op = "classify" =>
        LET portnum == last.packet.decoded.portnum
            expected ==
                CASE portnum = 1 -> "text_messages"
                  [] portnum = 3 -> "position_updates"
                  [] portnum = 4 -> "node_info"
                  [] portnum = 5 -> "routing"
                  [] portnum = 6 -> "admin"
                  [] portnum = 10 -> "detection_sensor"
                  [] portnum = 65 -> "store_forward"
                  [] portnum = 66 -> "range_test"
                  [] portnum = 67 -> "telemetry"
                  [] OTHER -> "unknown"
        IN  /\ ~last.result.is_none
                => /\ last.result.type = expected
                   /\ last.result.type \in MessageTypes
            /\ last.result.is_none => portnum = TEXT_MESSAGE_APP

\* C15 witness: the largest port of the inputs was classified as unknown.
C15_Witness ==
    /\ last.op = "classify"
    /\ last.packet.decoded.portnum = 2147483647
    /\ ~last.result.is_none
    /\ last.result.type = "unknown"

\* C16: _get_message_info returns None exactly for a text-port packet whose
\* payload, decoded with invalid bytes dropped and trimmed, is empty; on
\* every other port it returns a category and a content whatever the
\* payload is.
C16_NothingOnlyForBlankText ==
    last.op = "classify" =>
        /\ last.result.is_none
               <=> /\ last.packet.decoded.portnum = TEXT_MESSAGE_APP
                   /\ TextOf(last.packet) = ""
        /\ ~last.result.is_none
               => /\ last.result.type \in MessageTypes
                  /\ last.result.content # ""

\* C16 witness: a text packet whose payload is one invalid byte gave None.
C16_Witness ==
    /\ last.op = "classify"
    /\ last.packet.decoded.portnum = TEXT_MESSAGE_APP
    /\ last.packet.decoded.payload.bytes = <<BadByte>>
    /\ last.result.is_none

-----------------------------------------------------------------------------
(* Claims about the Sink call, checked under SpecSend *)

\* C17: with the channel found and no send raising, a message of at most
\* 2000 characters is one channel.send call with the message itself; a
\* longer one is two or more calls, each of 1 to 1900 characters, whose
\* texts in call order concatenate to the message.
C17_ChunkedInOrder ==
    (/\ last.op = "send"
     /\ last.env.channel
     /\ last.env.fail_at = 0)
    => LET message == last.result.message
       IN  /\ Len(message) <= 2000 => last.calls = <<message>>
           /\ Len(message) > 2000
                  => /\ Len(last.calls) > 1
                     /\ \A k \in DOMAIN last.calls :
                            /\ Len(last.calls[k]) >= 1
                            /\ Len(last.calls[k]) <= 1900
                     /\ Join(last.calls) = message

\* C17 witness: a message of 3801 characters went out in three calls.
C17_Witness ==
    /\ last.op = "send"
    /\ last.env = [channel |-> TRUE, fail_at |-> 0]
    /\ Len(last.result.message) = 3801
    /\ Len(last.calls) = 3
    /\ Len(last.calls[3]) = 1

-----------------------------------------------------------------------------
(* Claims about the Sink calls of a packet, checked under SpecChunks *)

\* the message _process_mesh_packet hands to _send_to_discord for text
\* packet p received through source
ContentOf(p, source) ==
    _get_message_info(nodes, radios, show_signal_strength, p.decoded, p.from,
                      p.rx_time, source,
                      Format1f(CHOOSE v \in p.rx_snr : TRUE),
                      ToString(CHOOSE v \in p.rx_rssi : TRUE)).content

\* the channel.send calls the message of p asks for
WantedOf(p, source) ==
    IF Len(ContentOf(p, source)) > DiscordLimit
    THEN Chunks(ContentOf(p, source)) ELSE <<ContentOf(p, source)>>

\* C37: the chunks of a message are submitted in order, one after the
\* other, up to and including the first whose send raises and none after
\* it; no exception leaves the call, the packet is on record afterwards
\* whether or not a send failed, and a packet on record makes no Sink call
\* when it comes again.
C37_ChunksStopAtFailure ==
    /\ (last.op = "packet" /\ last.attempted /\ last.env.channel)
       => \E wanted \in {WantedOf(last.packet, last.source)} :
            /\ last.calls =
                   SubSeq(wanted, 1,
                          IF last.env.fail_at \in 1..Len(wanted)
                          THEN last.env.fail_at ELSE Len(wanted))
            /\ ~last.escaped
            /\ WasSeen(last.packet, last.source)
    /\ (last.op = "packet" /\ last.seen_before) => last.calls = <<>>

\* C37 witness: a message of three chunks whose second send raised: two
\* calls were made, the third chunk was not submitted, and the packet is
\* on record.
C37_Witness ==
    /\ last.op = "packet"
    /\ last.attempted
    /\ last.env = [channel |-> TRUE, fail_at |-> 2]
    /\ Len(WantedOf(last.packet, last.source)) = 3
    /\ Len(last.calls) = 2
    /\ last.calls[2] = WantedOf(last.packet, last.source)[2]
    /\ WasSeen(last.packet, last.source)

-----------------------------------------------------------------------------
(* Claims about node labels, checked under SpecLabel *)

\* s occurs in t
Contains(t, s) ==
    \E i \in 1..(Len(t) - Len(s) + 1) : SubSeq(t, i, i + Len(s) - 1) = s

\* the two node ids as 8 lowercase hex digits
HexOf(node_id) == IF node_id = 305419896 THEN "12345678" ELSE "0000beef"

\* the label the claim gives a node: from the row on record, if it has a
\* name
LabelOf(node_id) ==
    LET named == {r \in nodes : /\ r.node_id = node_id
                                /\ r.short_name # "" \/ r.long_name # ""}
        r == CHOOSE r \in named : TRUE
    IN  IF named = {} THEN HexOf(node_id)
        ELSE (IF r.short_name # "" THEN r.short_name ELSE r.long_name)
                 \o " (" \o HexOf(node_id) \o ")"

\* C18: _get_node_name returns the node id as 8 lowercase hex digits while
\* no row with a name is on record for the node, and "<label> (<hex>)"
\* once one is, the label being the short name if it is not empty and the
\* long name otherwise; _update_node_info puts the trimmed names on
\* record; and a text packet classified afterwards carries the label.
C18_NodeLabel ==
    /\ last.op = "lookup"
           => last.result.label = LabelOf(last.result.node_id)
    /\ (/\ last.op = "store_node"
        /\ \/ Join(Strip(last.result.user_info.short_name)) # ""
           \/ Join(Strip(last.result.user_info.long_name)) # "")
           => \E r \in nodes :
                  /\ r.node_id = last.result.node_id
                  /\ r.short_name
                         = Join(Strip(last.result.user_info.short_name))
                  /\ r.long_name
                         = Join(Strip(last.result.user_info.long_name))
    /\ (last.op = "classify" /\ ~last.result.is_none)
           => Contains(last.result.content,
                       "| **" \o LabelOf(last.packet.from) \o "** |")

\* C18 witness: with Bob on record for one node and Alice for the other, a
\* text packet of the second renders "Al (0000beef)".
C18_Witness ==
    /\ last.op = "classify"
    /\ last.packet.from = 48879
    /\ Contains(last.result.content, "| **Al (0000beef)** |")
    /\ LabelOf(305419896) = "Bob (12345678)"

\* C38: after every _update_node_info call the nodes table holds exactly
\* one row for the node, and its short and long names are the (trimmed)
\* names of that call, also when both are empty.
C38_NodeUpsertLastWriteWins ==
    last.op = "store_node"
        => /\ Cardinality({r \in nodes :
                               r.node_id = last.result.node_id}) = 1
           /\ \A r \in nodes :
                  r.node_id = last.result.node_id
                      => /\ r.short_name
                                = Join(Strip(last.result.user_info.short_name))
                         /\ r.long_name
                                = Join(Strip(last.result.user_info.long_name))

-----------------------------------------------------------------------------
(* Claims about the decoding of a text payload, checked under              *)
(* SpecClassify                                                            *)

\* the text of a payload when every invalid byte is replaced by the
\* replacement character U+FFFD, then trimmed
ReplacedText(bytes) ==
    Join(Strip([i \in DOMAIN bytes |->
                   IF bytes[i] = BadByte THEN "<U+FFFD>" ELSE bytes[i]]))

\* C39: a text payload with at least one invalid byte yields a text
\* message, and its text is the payload with every invalid byte replaced,
\* not removed.
C39_InvalidBytesReplaced ==
    (/\ last.op = "classify"
     /\ last.packet.decoded.portnum = TEXT_MESSAGE_APP
     /\ \E i \in DOMAIN last.packet.decoded.payload.bytes :
            last.packet.decoded.payload.bytes[i] = BadByte)
    => /\ ~last.result.is_none
       /\ last.result.type = "text_messages"
       /\ Contains(last.result.content,
                   "[text] "
                       \o ReplacedText(last.packet.decoded.payload.bytes))

-----------------------------------------------------------------------------
(* Claims about the serial monitor, checked under SpecSerial *)

\* this step is a periodic check, made while connected, that finds more
\* than the configured timeout elapsed since the last packet
TimedOutAtCheck ==
    /\ serial_pc = "connected"
    /\ last'.op = "check"
    /\ now' - last_packet_time > serial_timeout

\* C20: a periodic check, while connected, at which the time since the
\* last packet exceeds the timeout makes the monitor leave the connected
\* state; it then closes the interface and clears it, waits the backoff
\* delay, and only then connects again: connecting is never entered from
\* connected, and the interface stays cleared until the new connection.
C20_TimeoutReconnects ==
    /\ [][TimedOutAtCheck => serial_pc' = "closing"]_vars
    /\ [][(serial_pc = "connected" /\ serial_pc' # "connected")
            => serial_pc' = "closing"]_vars
    /\ [][(serial_pc = "closing" /\ serial_pc' # "closing")
            => /\ serial_pc' = "backoff"
               /\ last'.op = "close"
               /\ last'.attempted = (meshtastic_interface # "none")
               /\ meshtastic_interface' = "none"]_vars
    /\ [][(serial_pc = "backoff" /\ serial_pc' # "backoff")
            => /\ serial_pc' = "connecting"
               /\ now' = now + BackoffDelay
               /\ meshtastic_interface' = "none"]_vars
    /\ [][(serial_pc # "connecting" /\ serial_pc' = "connecting")
            => serial_pc \in {"idle", "backoff", "retry_wait"}]_vars
    /\ [](serial_pc \in {"backoff", "connecting", "retry_wait"}
            => meshtastic_interface = "none")

\* C20 witness: after a timeout the interface was closed and cleared, the
\* backoff delay has passed and the monitor is about to connect again.
C20_Witness ==
    /\ serial_pc = "connecting"
    /\ last.op = "backoff"
    /\ meshtastic_interface = "none"
    /\ last_packet_time # 0
    /\ now - last_packet_time > serial_timeout + BackoffDelay

\* C21: every packet the serial interface delivers sets last_packet_time to
\* the time of its arrival, and a periodic check that finds no more than
\* the timeout elapsed since the last packet keeps the monitor connected:
\* the monitor leaves the connected state, and closes the interface, only
\* after a check that found more than the timeout elapsed.
C21_PacketsKeepLinkOpen ==
    /\ [][last'.op = "arrive" => last_packet_time' = now']_vars
    /\ [][(/\ serial_pc = "connected"
           /\ last'.op = "check"
           /\ now' - last_packet_time <= serial_timeout)
            => /\ serial_pc' = "connected"
               /\ meshtastic_interface' = meshtastic_interface]_vars
    /\ [][(serial_pc = "connected" /\ serial_pc' # "connected")
            => /\ last'.op = "check"
               /\ now' - last_packet_time > serial_timeout]_vars
    /\ [][last'.op = "close" => serial_pc = "closing"]_vars

\* C21 witness: a packet arrived after the connection was made, no check
\* has timed out, and the check made exactly the timeout after that packet
\* left the monitor connected with the interface open.
C21_Witness ==
    /\ serial_pc = "connected"
    /\ last.op = "check"
    /\ meshtastic_interface = "open"
    /\ ~erred
    /\ packet_queue # <<>>
    /\ last_packet_time > 1700000000 + StabilizationDelay
    /\ now - last_packet_time = serial_timeout

-----------------------------------------------------------------------------
(* Claims about the serial monitor's progress, checked under              *)
(* SpecMonitorFair                                                         *)

\* the clock of the model has no room left for another 30 second sleep
AtHorizon == now + CheckInterval > Horizon

\* the monitor has met a failure it recovers from: a creation that
\* failed, or a connection it gave up
Recovering == serial_pc \in {"retry_wait", "closing", "backoff"}

\* the link is silent for good: the device is gone and the reader thread
\* delivers nothing more, while the monitor still holds the interface
Stalled == serial_pc = "connected" /\ meshtastic_interface = "lost"

-----------------------------------------------------------------------------
(* Claims about the packet handler of the serial interface, checked under  *)
(* SpecWrapper                                                             *)

\* C40: for every packet the wrapper calls the library's original handler
\* exactly once, whether _packet_callback queued the packet or failed and
\* whether or not the original handler raised.
C40_OriginalHandlerOnce ==
    last.op = "handle" => last.result.original_calls = 1

-----------------------------------------------------------------------------
(* Claims about the serial byte stream, checked under SpecResync *)

\* the windows of the stream that start at its byte i
WindowsAt(i) ==
    {SubSeq(resync.stream, i, i + n - 1) :
        n \in MinFrameSize..Min(MaxWindowLength, Len(resync.stream) - i + 1)}

\* no window that starts inside the garbage bytes decodes
GarbageUndecodable ==
    \A i \in 1..resync.garbage : WindowsAt(i) \cap resync.decodes = {}

\* no window that is a shorter beginning of the envelope decodes
NoShorterFrame ==
    \A n \in MinFrameSize..(Len(resync.envelope) - 1) :
        SubSeq(resync.envelope, 1, n) \notin resync.decodes

\* exactly the envelope was emitted, N + envelope-length bytes were removed
\* from the front of the buffer, N of them one by one
EmittedTheEnvelope ==
    /\ resync.emitted = <<resync.envelope>>
    /\ Len(resync.stream) - Len(resync.buffer)
           = resync.garbage + Len(resync.envelope)
    /\ resync.dropped = resync.garbage

-----------------------------------------------------------------------------
(* Claims about tasks that interleave, checked under SpecRace *)

\* two tasks are past the was_seen check with the same key and source
BothPassed ==
    \E a, b \in TaskNames :
        /\ a # b
        /\ inflight[a].pc = "sending"
        /\ inflight[b].pc = "sending"
        /\ inflight[a].source = inflight[b].source
        /\ KeyOf(inflight[a].packet) = KeyOf(inflight[b].packet)

\* C24: tasks interleave only at awaits, and check-then-record is atomic:
\* two tasks that process a packet with the same key and source never
\* both pass the was_seen check, and the Sink never gets that packet
\* twice.
C24_CheckThenRecordAtomic ==
    /\ ~BothPassed
    /\ \A p \in RacePackets, source \in RadioNames :
           SinkMessages(KeyOf(p), source) <= 1

\* C27: once a dedup record exists for a key and source, its first-seen
\* time and its recorded-at time never change; the record can only be
\* deleted by the retention sweep.
C27_RecordNeverUpdated ==
    [][\A row \in processed_messages :
          \/ row \in processed_messages'
          \/ /\ ~\E other \in processed_messages' :
                   /\ other.message_id = row.message_id
                   /\ other.source = row.source
             /\ last'.op \in {"restart", "construct"}]_vars

-----------------------------------------------------------------------------
(* Claims about the tasks on_ready creates, checked under SpecReady *)

\* C25: at every moment there is at most one serial monitor task, at most
\* one packet-queue consumer task and at most one HTTP poll-loop task,
\* also when the ready event fires more than once.
C25_OneTaskEach ==
    /\ tasks.monitor_serial <= 1
    /\ tasks.process_packet_queue <= 1
    /\ tasks.monitor_radios_http <= 1

\* C32: whenever _monitor_serial calls _create_serial_interface, no
\* interface is held (meshtastic_interface is None), and after
\* _close_serial_interface returned meshtastic_interface is None, also
\* when close() raised.
C32_CreateOnlyWhenNoneHeld ==
    /\ [][last'.op = "create" => meshtastic_interface = "none"]_vars
    /\ [][last'.op = "close" => meshtastic_interface' = "none"]_vars

-----------------------------------------------------------------------------
(* Claims about the packet queue, checked under SpecQueueFair and          *)
(* SpecSerial                                                              *)

\* C29: every packet handed to _packet_callback is put at the end of
\* packet_queue with the source 'serial'; the consumer takes the packets
\* from the front, one per round, each exactly once and in the order of
\* their arrival, it goes on after a round that met a failure, and as long
\* as packets are queued it keeps taking them, so every queued packet is
\* processed in the end.
C29_QueuedPacketsProcessedInOrder ==
    /\ [][last'.op = "arrive"
            => packet_queue' = Append(packet_queue,
                                      <<"serial", last'.packet>>)]_vars
    /\ [][last'.op = "queue"
            => /\ packet_queue # <<>>
               /\ last'.source = "serial"
               /\ last'.packet = Head(packet_queue)[2]
               /\ packet_queue' = Tail(packet_queue)]_vars
    /\ [][packet_queue' # packet_queue
            => last'.op \in {"arrive", "queue"}]_vars
    /\ [][queue_pc = "running" => queue_pc' = "running"]_vars
    /\ ([]<>(packet_queue = <<>>) \/ []<><<ProcessQueued>>_vars)

\* C29 witness: the Sink had no channel for the text packet taken first,
\* and the consumer has gone on to take the packet queued behind it, with
\* another packet still waiting.
C29_Witness ==
    /\ last.op = "queue"
    /\ last.erred_before
    /\ message_filters["text_messages"]
    /\ processed_messages # {}
    /\ sink = EmptyBag
    /\ last.packet = EncryptedPacket
    /\ packet_queue # <<>>
    /\ queue_pc = "running"

\* C30: the queue between the serial read path and the packet processor
\* has a fixed capacity: it is full, and takes no further packet, no later
\* than at the largest length followed here.
C30_QueueBounded ==
    Len(packet_queue) >= MaxQueue => Full(packet_queue)

-----------------------------------------------------------------------------
(* Claims about startup, checked under SpecStartup *)

\* the environment lacks the token or the channel id, or the channel id is
\* not an integer
ConfigError(environ) ==
    \/ environ.DISCORD_BOT_TOKEN \in {{}, {""}}
    \/ environ.DISCORD_CHANNEL_ID
           \notin {{"123456"}, {" 42 "}, {"-7"}, {"1_000"}}

\* C19: with the bot token missing, the channel id missing or the channel
\* id not an integer, construction fails with an error, the store is not
\* opened, no task is started, and nothing is processed afterwards.
C19_ConfigErrorIsFatal ==
    /\ []((last.op = "construct" /\ ConfigError(last.result.environ))
            => /\ startup = "failed"
               /\ last.result.error # "ok")
    /\ [](startup = "failed"
            => /\ conn = "none"
               /\ session = "none"
               /\ http_pc = "idle"
               /\ serial_pc = "idle"
               /\ queue_pc = "idle"
               /\ meshtastic_interface = "none"
               /\ processed_messages = {}
               /\ sink = EmptyBag
               /\ last.op = "construct")
    /\ [][startup = "failed" => UNCHANGED vars]_vars

\* C19 witness: construction failed on a channel id that is not a number.
C19_Witness ==
    /\ startup = "failed"
    /\ last.op = "construct"
    /\ last.result.environ.DISCORD_BOT_TOKEN = {"test_token"}
    /\ last.result.environ.DISCORD_CHANNEL_ID = {"not_a_number"}
    /\ last.result.error = "DISCORD_CHANNEL_ID must be a valid integer"
    /\ conn = "none"

-----------------------------------------------------------------------------
(* Claims about the store, checked under SpecStore *)

Seen(message_id, source) ==
    _is_message_processed(processed_messages, message_id, source)

StoreKeys == {i.message_id : i \in RecordInputs} \X StoreSources

\* C2: was_seen is false for a pair until a record call for that pair, true
\* right after a record call, and true again after every further record
\* call for the pair.
C2_SeenIffRecorded ==
    /\ \A k \in StoreKeys : ~Seen(k[1], k[2])
    /\ [](last.op = "record" => Seen(last.message_id, last.source))
    /\ [][\A k \in StoreKeys :
             (~Seen(k[1], k[2]) /\ Seen(k[1], k[2])')
             => (last'.op = "record" /\ last'.message_id = k[1]
                                     /\ last'.source = k[2])]_vars

\* C2 witness: a pair already on record has been recorded again and is
\* still seen.
C2_Witness ==
    /\ last.op = "record"
    /\ last.seen_before
    /\ Seen(last.message_id, last.source)

\* C6: a record call for (message id, s1) leaves was_seen of the same
\* message id under every other source as it was.
C6_OtherSourcesUnchanged ==
    [][last'.op = "record"
       => \A s2 \in StoreSources \ {last'.source} :
              _is_message_processed(processed_messages',
                                    last'.message_id, s2)
              = _is_message_processed(processed_messages,
                                      last'.message_id, s2)]_vars

\* C6 witness: a message id is recorded for one source and unseen for
\* another.
C6_Witness ==
    /\ last.op = "record"
    /\ \E s2 \in StoreSources \ {last.source} : ~Seen(last.message_id, s2)

\* C7: across a restart on the same database a dedup row whose processed_at
\* is at most 24 hours old is still seen, and one that is older is gone.
C7_RestartKeepsRecentOnly ==
    [][last'.op = "restart"
       => \A r \in processed_messages :
              IF now - r.processed_at <= RetentionSeconds
              THEN r \in processed_messages'
              ELSE ~Seen(r.message_id, r.source)']_vars

\* C7 witness: a restart deleted a row and kept another.
C7_Witness ==
    /\ last.op = "restart"
    /\ last.purged > 0
    /\ processed_messages # {}

\* C28: the retention purge runs only at startup; while the process runs
\* no dedup record is deleted, so was_seen stays true for a recorded key
\* until the next restart, also once the record is older than the
\* retention window.
C28_PurgeOnlyAtStartup ==
    /\ [][last'.op # "restart"
            => \A row \in processed_messages :
                  _is_message_processed(processed_messages',
                                        row.message_id, row.source)]_vars
    /\ [][last'.purged > 0 => last'.op = "restart"]_vars
    /\ [][last'.op = "restart"
            => /\ processed_messages' \subseteq processed_messages
               /\ \A row \in processed_messages' :
                     now - row.processed_at <= RetentionSeconds]_vars

\* C28 witness: the process has run on for more than the retention window
\* after a record was written, another record was written since, and the
\* old record is still there and still makes was_seen true.
C28_Witness ==
    /\ last.op = "record"
    /\ \E row \in processed_messages :
          /\ now - row.processed_at > RetentionSeconds
          /\ _is_message_processed(processed_messages, row.message_id,
                                   row.source)

-----------------------------------------------------------------------------
(* Claims about HTTP polling, checked under SpecHttp *)

\* the answer is a 200 with a body that is not empty
GotData(response) ==
    /\ response.outcome = "response"
    /\ response.status = 200
    /\ response.body # EmptyBody

\* the answer is a 200 with an empty body, or a 503
GotNothing(response) ==
    /\ response.outcome = "response"
    /\ \/ response.status = 200 /\ response.body = EmptyBody
       \/ response.status = 503

\* the poll failed: a timeout, a connection failure, or a status other
\* than 200 and 503
PollFailed(response) ==
    \/ response.outcome \in {"timeout", "error"}
    \/ response.outcome = "response" /\ response.status \notin {200, 503}

\* C8: a poll answered by 200 with a non-empty body hands exactly that one
\* body to the decoder; a poll answered by 200 with an empty body, or by
\* 503, hands nothing to the decoder, makes no Sink call, raises nothing
\* and changes neither the tables nor what the Sink has received.
C8_OneFrameOrNothing ==
    /\ [](last.op = "poll" =>
            /\ GotData(last.response)
                 => last.handed = <<last.response.body>>
            /\ GotNothing(last.response)
                 => /\ last.handed = <<>>
                    /\ ~last.attempted
                    /\ last.calls = <<>>
                    /\ ~last.escaped)
    /\ [][(last'.op = "poll" /\ GotNothing(last'.response))
            => UNCHANGED <<db_vars, sink>>]_vars

\* C8 witness: a poll answered by 503 with a body handed nothing on, after
\* an earlier poll answered by 200 had its frame decoded and forwarded.
C8_Witness ==
    /\ last.op = "poll"
    /\ last.response = Response(503, TextFrame)
    /\ last.handed = <<>>
    /\ \E q \in RadioNames : SinkMessages(KeyOf(TextPacket), q) = 1

\* C9: no poll raises to its caller, and a poll that fails (a status other
\* than 200 and 503, a timeout, a connection failure) hands nothing to the
\* decoder and leaves the dedup, node and radio tables as they were.
C9_PollNeverRaises ==
    /\ [](last.op = "poll" =>
            /\ ~last.escaped
            /\ PollFailed(last.response)
                 => /\ last.handed = <<>>
                    /\ last.calls = <<>>)
    /\ [][(last'.op = "poll" /\ PollFailed(last'.response))
            => UNCHANGED <<db_vars, sink>>]_vars

\* C9 witness: a connection failure on an open session, with rows in all
\* three tables.
C9_Witness ==
    /\ last.op = "poll"
    /\ session = "open"
    /\ last.response = ConnectionFailed
    /\ processed_messages # {}
    /\ nodes # {}
    /\ radios # {}

\* the last poll came after another radio's poll failed in the same cycle
\* and returned a packet that was not on record, classifies and has its
\* category enabled
HealthyAfterFailure ==
    /\ last.op = "poll"
    /\ last.after_failure
    /\ GotData(last.response)
    /\ FramePacket(last.response.body) # NoPacket
    /\ ~last.seen_before
    /\ last.packet.from # 0
    /\ last.packet.decoded.truthy
    /\ last.packet.decoded.portnum = TEXT_MESSAGE_APP
           => TextOf(last.packet) # ""
    /\ _should_process_message_type(
           message_filters, PortType(last.packet.decoded.portnum))

\* C10: in one poll cycle a failed poll of one radio neither prevents nor
\* alters the polls of the others: every radio is polled before the cycle
\* ends; a poll that follows a failure treats its packet exactly as
\* _process_mesh_packet treats it on its own; and an unseen packet it
\* returns is forwarded (one Sink call when the Sink takes it) and recorded.
C10_FailureIsolatedInCycle ==
    /\ [](HealthyAfterFailure =>
            /\ last.packet = FramePacket(last.response.body)
            /\ last.attempted
            /\ WasSeen(last.packet, last.source)
            /\ ~SinkFailed(last.env)
                 => /\ Len(last.calls) = 1
                    /\ SinkMessages(KeyOf(last.packet), last.source) = 1)
    /\ [][poll_count' # poll_count
            => \A r \in RadioNames : cycle[r] # "pending"]_vars
    /\ [][(/\ last'.op = "poll"
           /\ last'.after_failure
           /\ GotData(last'.response)
           /\ FramePacket(last'.response.body) # NoPacket)
            => LET r == _process_mesh_packet(
                            Db, Cfg, FramePacket(last'.response.body),
                            last'.source, last'.env, now)
               IN  /\ processed_messages' = r.processed_messages
                   /\ nodes' = r.nodes
                   /\ last'.calls = r.calls]_vars

\* C10 witness: RadioA's poll failed and RadioB's poll, in the same cycle,
\* forwarded and recorded its packet.
C10_Witness ==
    /\ HealthyAfterFailure
    /\ cycle["RadioA"] = "failed"
    /\ last.source = "RadioB"
    /\ Len(last.calls) = 1
    /\ WasSeen(last.packet, "RadioB")
    /\ ~WasSeen(last.packet, "RadioA")

\* C33: in the HTTP poll loop a poll is made only for a radio whose poll
\* of the current cycle is still to come, and it settles that radio's poll
\* and no other; the next cycle starts, and poll_count goes up by one,
\* only when the poll of every configured radio has completed, and it
\* starts with every radio to be polled again: each radio is polled exactly
\* once per cycle and polls of two cycles never overlap.
C33_OnePollPerRadioPerCycle ==
    /\ [][last'.op = "poll"
            => /\ last'.source \in RadioNames
               /\ cycle[last'.source] = "pending"
               /\ cycle'[last'.source] \in {"ok", "failed"}
               /\ \A q \in RadioNames \ {last'.source} :
                      cycle'[q] = cycle[q]
               /\ poll_count' = poll_count]_vars
    /\ [][(poll_count' # poll_count \/ last'.op = "cycle")
            => /\ last'.op = "cycle"
               /\ poll_count' = poll_count + 1
               /\ \A q \in RadioNames : cycle[q] \in {"ok", "failed"}
               /\ \A q \in RadioNames : cycle'[q] = "pending"]_vars
    /\ [][(\E q \in RadioNames : cycle'[q] # cycle[q])
            => last'.op \in {"poll", "cycle"}]_vars

\* C33 witness: the second cycle has started after both polls of the first
\* completed, and its first poll has been made, and has failed, while the
\* other radio's is still to come.
C33_Witness ==
    /\ last.op = "poll"
    /\ poll_count = 1
    /\ last.source = "RadioB"
    /\ cycle["RadioB"] = "failed"
    /\ cycle["RadioA"] = "pending"
    /\ erred

\* C35: whenever the poll loop issues a poll, self.session is an open
\* session, also after on_disconnect has run.
C35_PollsOnOpenSession ==
    [][last'.op = "poll" => session = "open"]_vars

-----------------------------------------------------------------------------
(* Claims about the recycling of the HTTP session, checked under           *)
(* SpecRecycle                                                             *)

\* a multiple of 3600 / interval lies between n - 1 (excluded) and n: the
\* n-th completed cycle is the one that fills another hour's worth
HourCrossed(n, interval) ==
    (n * interval) \div 3600 > ((n - 1) * interval) \div 3600

\* C34: for every positive poll interval the session is closed and
\* replaced once every 3600 / poll_interval completed poll cycles: a cycle
\* boundary recycles the session exactly when the completed cycles have
\* reached another multiple of 3600 / poll_interval, never before the
\* first cycle, and the polls that follow run on the new, open session.
C34_SessionRecycledHourly ==
    /\ [][last'.op = "cycle"
            => /\ poll_count' >= 1
               /\ last'.result.recycled
                      <=> HourCrossed(poll_count', poll_interval)]_vars
    /\ [][(last'.op = "cycle" /\ last'.result.recycled)
            => session' = "open"]_vars
    /\ [](poll_count = 0 => last.op # "cycle")

-----------------------------------------------------------------------------
(* Claims about decoding, checked under SpecHttp *)

\* C11: a frame handed to _process_protobuf_data goes through the FromRadio
\* path when FromRadio parses it, through the MeshPacket path only when
\* FromRadio does not parse it and MeshPacket does, and is dropped when
\* neither does; it never goes through both, a dropped frame changes
\* nothing, a frame both parsers take is treated as the envelope alone, and
\* no error leaves the call.
C11_EnvelopeThenBarePacket ==
    /\ [](last.op = "poll" /\ last.handed # <<>> =>
            LET data == last.handed[1]
            IN  /\ ~last.escaped
                /\ last.path \in {"from_radio", "mesh_packet", "dropped"}
                /\ last.path = "from_radio" <=> data.from_radio # {}
                /\ last.path = "mesh_packet"
                       <=> data.from_radio = {} /\ data.mesh_packet # {}
                /\ last.path = "dropped"
                       <=> data.from_radio = {} /\ data.mesh_packet = {}
                /\ last.path = "dropped" => last.calls = <<>>)
    /\ [][(last'.op = "poll" /\ last'.handed # <<>>) =>
            LET data == last'.handed[1]
                fr == _process_from_radio(
                          Db, Cfg, CHOOSE f \in data.from_radio : TRUE,
                          last'.source, last'.env, now)
            IN  /\ data.from_radio # {}
                    => /\ processed_messages' = fr.processed_messages
                       /\ nodes' = fr.nodes
                       /\ radios' = fr.radios
                       /\ last'.calls = fr.calls
                /\ data.from_radio = {} /\ data.mesh_packet = {}
                    => UNCHANGED <<db_vars, sink>>]_vars

\* C11 witness: a frame that both parsers take was handled as an envelope
\* alone, after a frame that only MeshPacket parses had been forwarded.
C11_Witness ==
    /\ last.op = "poll"
    /\ last.handed = <<DualFrame>>
    /\ last.path = "from_radio"
    /\ ~_is_message_processed(processed_messages, KeyOf(PositionPacket),
                              last.source)
    /\ \E q \in RadioNames : SinkMessages(KeyOf(PositionPacket), q) = 1

\* the variant of the envelope the last poll handed on, "" when the poll
\* handed nothing on or FromRadio did not parse the body
VariantOf(op) ==
    IF op.op = "poll" /\ op.handed # <<>> /\ op.handed[1].from_radio # {}
    THEN (CHOOSE f \in op.handed[1].from_radio : TRUE).variant
    ELSE ""

\* C13: an envelope whose variant is node_info, my_info or config makes no
\* Sink call and leaves the dedup records as they are; node_info changes
\* at most the nodes table (the row of its node), my_info at most the
\* radios table (the row of its source), config nothing.
C13_IdentityEnvelopes ==
    /\ [][VariantOf(last') \in {"node_info", "my_info", "config"}
            => /\ last'.calls = <<>>
               /\ ~last'.attempted
               /\ UNCHANGED <<sink, processed_messages>>]_vars
    /\ [][VariantOf(last') = "node_info"
            => /\ UNCHANGED radios
               /\ \A r \in nodes : r.node_id # 48879 => r \in nodes'
               /\ \A r \in nodes' : r.node_id # 48879 => r \in nodes]_vars
    /\ [][VariantOf(last') = "my_info"
            => /\ UNCHANGED nodes
               /\ \A r \in radios :
                      r.source_name # last'.source => r \in radios'
               /\ \A r \in radios' :
                      r.source_name # last'.source => r \in radios]_vars
    /\ [][VariantOf(last') = "config" => UNCHANGED <<db_vars, sink>>]_vars

\* C13 witness: with a dedup record and a Sink call in place, a node_info
\* and a my_info envelope have been stored and a config envelope came last.
C13_Witness ==
    /\ VariantOf(last) = "config"
    /\ processed_messages # {}
    /\ BagCardinality(sink) > 0
    /\ \E r \in nodes : r.node_id = 48879 /\ r.short_name = "Al"
    /\ \E r \in radios : r.node_id = 305419896

-----------------------------------------------------------------------------
(* Claims about the ingestion tasks, checked under SpecIngest *)

\* the last operation handed a task's input to _process_mesh_packet after
\* an earlier failure: a packet that was not on record, classifies and has
\* its category enabled
InputAfterError ==
    /\ last.op \in {"poll", "queue"}
    /\ last.erred_before
    /\ last.op = "poll" =>
           /\ GotData(last.response)
           /\ FramePacket(last.response.body) # NoPacket
    /\ ~last.seen_before
    /\ last.packet.from # 0
    /\ last.packet.decoded.truthy
    /\ last.packet.decoded.portnum = TEXT_MESSAGE_APP
           => TextOf(last.packet) # ""
    /\ _should_process_message_type(
           message_filters, PortType(last.packet.decoded.portnum))

\* C12: once started, the HTTP poll loop, the serial monitor and the queue
\* processor never end, whatever decode, transport or Sink failure they
\* meet, and input that comes after a failure is handled as usual: an
\* unseen packet is forwarded and recorded.
C12_TasksKeepRunning ==
    /\ [](/\ http_pc \in {"idle", "polling"}
          /\ serial_pc \in {"idle", "connecting", "retry_wait", "connected",
                            "closing", "backoff"}
          /\ queue_pc \in {"idle", "running"})
    /\ [][/\ http_pc # "idle" => http_pc' = "polling"
          /\ serial_pc # "idle" => serial_pc' \notin {"idle", "dead"}
          /\ queue_pc # "idle" => queue_pc' = "running"]_vars
    /\ [](InputAfterError =>
            /\ ~last.escaped
            /\ last.attempted
            /\ WasSeen(last.packet, last.source)
            /\ ~SinkFailed(last.env) => Len(last.calls) = 1)

\* C12 witness: after a failure, the serial monitor is connected again and
\* the queue processor has forwarded a packet that arrived later.
C12_Witness ==
    /\ InputAfterError
    /\ last.op = "queue"
    /\ erred
    /\ serial_pc = "connected"
    /\ now >= 1700000000 + RetryDelay
    /\ Len(last.calls) = 1
    /\ WasSeen(last.packet, SerialSource)
====
